---- MODULE Spec2Model ----
(***************************************************************************)
(* Grading of quiz answers in src/app/api/grade/route.ts, with the         *)
(* document store (src/lib/document-store.ts), the upload handler and the  *)
(* question generator behind it; these have sections of their own below.   *)
(*                                                                         *)
(* The file holds two revisions of the grader:                             *)
(*   - calculateScore and the POST handler built on it (lines 1-548);      *)
(*   - the GradingService class and its POST handler (lines 550-1072).     *)
(* Both are modelled.  A grading is one step: the inputs (the question,    *)
(* the submitted answer) are drawn in Init, the outcome of the LLM call is *)
(* drawn by the step that makes the call, and the step leaves the          *)
(* GradingResult in `result`.  A POST request is a sequence of steps, one  *)
(* for each await of the handler: the request body is drawn in Init, and   *)
(* the handler leaves what it returns in `response`.                       *)
(*                                                                         *)
(* Strings are sequences of one-character strings, so that toLowerCase,    *)
(* trim, split and join are computed character by character.  Numbers are  *)
(* fixed-point integers counting hundredths (Unit = 1.00); NaN is carried  *)
(* in a flag of its own.  An optional value (a field that may be           *)
(* undefined) is a sequence of length 0 or 1.                              *)
(***************************************************************************)
EXTENDS Integers, Sequences, FiniteSets, TLC

VARIABLES
  pc,              \* the position of the running call or handler
  question,        \* the question handed to a scorer
  userAnswer,      \* the answer handed to a scorer
  llm,             \* the outcome of the scorer's LLM call
  result,          \* the GradingResult of the scorer
  result2,         \* the GradingResult of a second grading of the same pair
  feedback,        \* what generateFeedback returned
  apiKey,          \* whether process.env.OPENAI_API_KEY is set
  body,            \* the body of a POST request
  cursor,          \* the position of the handler's loop
  gradingResults,  \* the handler's list of GradingResults
  response,        \* what the handler returned
  requests,        \* the POST /api/grade requests that run concurrently
  tables,          \* the rows of data/vector_store.db
  storeFile,       \* the content of data/document-stores.json
  calls,           \* the calls of VectorStoreService made so far
  upload,          \* the running POST /api/upload request
  uploadsDir,      \* the files of the uploads directory
  generation       \* a call of QuestionGenerator.generateQuestions

\* the state of the graders and of one POST /api/grade request
gradeVars ==
  <<pc, question, userAnswer, llm, result, result2, feedback, apiKey,
    body, cursor, gradingResults, response>>

\* the state of the document store
storeVars == <<tables, storeFile, calls>>

\* the state of an upload
uploadVars == <<upload, uploadsDir>>

\* the state outside the graders
extVars == <<requests, storeVars, uploadVars, generation>>

vars == <<gradeVars, extVars>>

\* the state of a call of generateFeedback or of a second grading
callVars == <<result2, feedback, apiKey>>

\* the state of a POST request
postVars == <<body, cursor, gradingResults, response>>

-----------------------------------------------------------------------------
(* Bounds *)

\* longest answer, counted in comma-separated selections
MaxSel == 2

\* most correct answers of a multi-choice question in SpecWide
MaxCorrect == 10

-----------------------------------------------------------------------------
(* Numbers *)

\* 1.00 in hundredths
Unit == 100

Max(a, b) == IF a >= b THEN a ELSE b

Min(a, b) == IF a <= b THEN a ELSE b

\* Math.round(p / q) for q > 0: the nearest integer, halves towards +infinity
RoundDiv(p, q) == (2 * p + q) \div (2 * q)

-----------------------------------------------------------------------------
(* Optional values *)

Undefined == <<>>

Some(x) == <<x>>

IsDefined(o) == Len(o) = 1

-----------------------------------------------------------------------------
(* Strings *)

\* String.prototype.toLowerCase, one character
LowerChar(ch) ==
  CASE ch = "A" -> "a"
    [] ch = "B" -> "b"
    [] ch = "C" -> "c"
    [] OTHER -> ch

\* String.prototype.toLowerCase
ToLowerCase(s) == [i \in 1..Len(s) |-> LowerChar(s[i])]

RECURSIVE TrimStart(_)
TrimStart(s) ==
  IF s # <<>> /\ Head(s) = " " THEN TrimStart(Tail(s)) ELSE s

RECURSIVE TrimEnd(_)
TrimEnd(s) ==
  IF s # <<>> /\ s[Len(s)] = " " THEN TrimEnd(SubSeq(s, 1, Len(s) - 1)) ELSE s

\* String.prototype.trim
Trim(s) == TrimEnd(TrimStart(s))

\* String.prototype.split(","): "" splits into one empty piece
RECURSIVE Split(_)
Split(s) ==
  IF \E i \in 1..Len(s) : s[i] = ","
    THEN LET i == CHOOSE k \in 1..Len(s) :
                    s[k] = "," /\ \A j \in 1..(k - 1) : s[j] # ","
         IN  <<SubSeq(s, 1, i - 1)>> \o Split(SubSeq(s, i + 1, Len(s)))
    ELSE <<s>>

\* Array.prototype.join(",")
RECURSIVE Join(_)
Join(ts) ==
  IF ts = <<>> THEN <<>>
  ELSE IF Len(ts) = 1 THEN ts[1]
  ELSE ts[1] \o <<",">> \o Join(Tail(ts))

\* a string in a boolean context: only "" is falsy
TruthyStr(o) == IsDefined(o) /\ o[1] # <<>>

\* a value that is not a string and is truthy, such as the number 5
NotAString == <<"number">>

\* typeof v === "string"
IsString(v) == v # NotAString

\* typeof v === "string" ? v.toLowerCase() : ""
LowerIfString(v) == IF IsString(v) THEN ToLowerCase(v) ELSE <<>>

-----------------------------------------------------------------------------
(* The outcome of a chat-completion call *)

\* the call was not made
NoLLM == [kind |-> "unused", score |-> Undefined, isCorrect |-> FALSE]

\* the call (or the construction of the client) threw
LLMThrows == [kind |-> "throw", score |-> Undefined, isCorrect |-> FALSE]

\* the call returned text that JSON.parse rejects
LLMUnparsable == [kind |-> "unparsable", score |-> Undefined, isCorrect |-> FALSE]

\* the scores a parsed reply may carry: none, negative, partial, above any maximum
LLMScores == {Undefined, Some(-1 * Unit), Some(4 * Unit), Some(9 * Unit), Some(20 * Unit)}

LLMOutcomes ==
  {LLMThrows, LLMUnparsable}
    \cup [kind : {"ok"}, score : LLMScores, isCorrect : BOOLEAN]

-----------------------------------------------------------------------------
(* Grading results *)

NoResult ==
  [by |-> "none", path |-> "none", score |-> 0, nan |-> FALSE,
   maxScore |-> 0, isCorrect |-> FALSE]

\* a GradingResult; `by` names the function that built it and `path` the
\* return statement
Result(by, path, score, maxScore, isCorrect) ==
  [by |-> by, path |-> path, score |-> score, nan |-> FALSE,
   maxScore |-> maxScore, isCorrect |-> isCorrect]

\* the call threw a TypeError instead of returning a GradingResult
Thrown(by) == Result(by, "throws", 0, 0, FALSE)

\* a question that is null; its fields are never read
NullQuestion ==
  [type |-> "null", correctAnswer |-> Undefined,
   correctAnswers |-> Undefined, weight |-> Undefined]

-----------------------------------------------------------------------------
(* Revision 1: calculateScore *)

\* question.weight || 1
WeightOr1(q) ==
  IF IsDefined(q.weight) /\ q.weight[1] # 0 THEN q.weight[1] ELSE Unit

\* Math.max(1, question.weight || 1)
MaxScoreOf(q) == Max(Unit, WeightOr1(q))

\* question.correctAnswer || question.correctAnswers: an array is truthy
\* even when it is empty
HasCorrect(q) == TruthyStr(q.correctAnswer) \/ IsDefined(q.correctAnswers)

\* ScoreSingle comparing the strings as they are, without toLowerCase
ScoreSingle_CaseSensitive(q, answer) ==
  LET maxScore == Max(Unit, IF IsDefined(q.weight) /\ q.weight[1] # 0
                              THEN q.weight[1] ELSE Unit) IN
  IF ~TruthyStr(q.correctAnswer)
    THEN Result("calculateScore", "noCorrectAnswer", 0, maxScore, FALSE)
    ELSE LET correct == (IF IsString(q.correctAnswer[1])
                           THEN q.correctAnswer[1] ELSE <<>>)
                          = (IF IsString(answer) THEN answer ELSE <<>>)
         IN  Result("calculateScore", "single",
                    IF correct THEN maxScore ELSE 0, maxScore, correct)

\* ScoreSingle trimming both strings before it compares them
ScoreSingle_Trimmed(q, answer) ==
  LET maxScore == Max(Unit, IF IsDefined(q.weight) /\ q.weight[1] # 0
                              THEN q.weight[1] ELSE Unit) IN
  IF ~TruthyStr(q.correctAnswer)
    THEN Result("calculateScore", "noCorrectAnswer", 0, maxScore, FALSE)
    ELSE LET correct == (IF IsString(q.correctAnswer[1])
                           THEN ToLowerCase(Trim(q.correctAnswer[1])) ELSE <<>>)
                          = (IF IsString(answer)
                               THEN ToLowerCase(Trim(answer)) ELSE <<>>)
         IN  Result("calculateScore", "single",
                    IF correct THEN maxScore ELSE 0, maxScore, correct)

\* the yes-no / multiple-choice-single case
ScoreSingle(q, answer) ==
  LET maxScore == MaxScoreOf(q) IN
  IF ~TruthyStr(q.correctAnswer)
    THEN Result("calculateScore", "noCorrectAnswer", 0, maxScore, FALSE)
    ELSE LET correct == LowerIfString(q.correctAnswer[1]) = LowerIfString(answer)
         IN  Result("calculateScore", "single",
                    IF correct THEN maxScore ELSE 0, maxScore, correct)

\* the correctAnswers of the multiple-choice-multi case
MultiCorrectAnswers(q) ==
  IF IsDefined(q.correctAnswers) THEN q.correctAnswers[1]
  ELSE IF TruthyStr(q.correctAnswer) THEN <<q.correctAnswer[1]>>
  ELSE <<>>

\* userAnswer.answer.split(",").map((a) => a.trim())
UserAnswers(answer) ==
  LET parts == Split(answer) IN [i \in 1..Len(parts) |-> Trim(parts[i])]

\* userAnswers.filter(... correctAnswers.some(...)).length
CorrectCount(userAnswers, correctAnswers) ==
  Cardinality({i \in 1..Len(userAnswers) :
                 \E j \in 1..Len(correctAnswers) :
                    LowerIfString(correctAnswers[j])
                      = LowerIfString(userAnswers[i])})

\* ScoreMulti without the penalty for the selections that are not correct
ScoreMulti_NoPenalty(q, answer) ==
  LET maxScore       == Max(Unit, IF IsDefined(q.weight) /\ q.weight[1] # 0
                                    THEN q.weight[1] ELSE Unit)
      correctAnswers == MultiCorrectAnswers(q)
      n              == Len(correctAnswers)
      userAnswers    == UserAnswers(answer)
      correctCount   == CorrectCount(userAnswers, correctAnswers)
      num            == Max(0, correctCount * maxScore)
  IN  IF n = 0
        THEN Result("calculateScore", "noCorrectAnswers", 0, maxScore, FALSE)
      ELSE IF ~IsString(answer)
        THEN Thrown("calculateScore")
        ELSE Result("calculateScore", "multi",
                    RoundDiv(num, n), maxScore, num = n * maxScore)

\* the multiple-choice-multi case
ScoreMulti(q, answer) ==
  LET maxScore       == MaxScoreOf(q)
      correctAnswers == MultiCorrectAnswers(q)
      n              == Len(correctAnswers)
      userAnswers    == UserAnswers(answer)
      correctCount   == CorrectCount(userAnswers, correctAnswers)
      incorrectCount == Len(userAnswers) - correctCount
      \* score = num / n
      num            == Max(0, correctCount * maxScore - incorrectCount * maxScore)
  IN  IF n = 0
        THEN Result("calculateScore", "noCorrectAnswers", 0, maxScore, FALSE)
      \* userAnswer.answer.split is not a function
      ELSE IF ~IsString(answer)
        THEN Thrown("calculateScore")
        ELSE Result("calculateScore", "multi",
                    RoundDiv(num, n), maxScore, num = n * maxScore)

\* ScoreByLLM whose catch block returns a zero score
ScoreByLLM_ZeroFallback(q, o) ==
  LET maxScore == Max(Unit, IF IsDefined(q.weight) /\ q.weight[1] # 0
                              THEN q.weight[1] ELSE Unit) IN
  IF o.kind = "ok"
    THEN LET s == IF IsDefined(o.score) THEN o.score[1] ELSE 0
         IN  Result("calculateScore", "llm",
                    Max(0, Min(maxScore, s)), maxScore,
                    o.isCorrect \/ (IsDefined(o.score) /\ 10 * o.score[1] >= 8 * maxScore))
    ELSE Result("calculateScore", "fallback", 0, maxScore, FALSE)

\* the try/catch around the LLM call
ScoreByLLM(q, o) ==
  LET maxScore == MaxScoreOf(q) IN
  IF o.kind = "ok"
    THEN LET s == IF IsDefined(o.score) THEN o.score[1] ELSE 0
         IN  Result("calculateScore", "llm",
                    Max(0, Min(maxScore, s)), maxScore,
                    o.isCorrect \/ (IsDefined(o.score) /\ 10 * o.score[1] >= 8 * maxScore))
    ELSE Result("calculateScore", "fallback", maxScore, maxScore, TRUE)

\* calculateScore handing every answered question to the LLM
calculateScore_LLMFirst(q, ua, o) ==
  IF q = NullQuestion \/ ~IsDefined(ua)
    THEN Result("calculateScore", "missing", 0, Unit, FALSE)
  ELSE IF ua[1] = <<>>
    THEN Result("calculateScore", "noAnswer", 0, MaxScoreOf(q), FALSE)
  ELSE ScoreByLLM(q, o)

calculateScore(q, ua, o) ==
  IF q = NullQuestion \/ ~IsDefined(ua)
    THEN Result("calculateScore", "missing", 0, Unit, FALSE)
  ELSE IF ua[1] = <<>>
    THEN Result("calculateScore", "noAnswer", 0, MaxScoreOf(q), FALSE)
  ELSE IF q.type \in {"yes-no", "multiple-choice-single"} /\ HasCorrect(q)
    THEN ScoreSingle(q, ua[1])
  ELSE IF q.type = "multiple-choice-multi" /\ HasCorrect(q)
    THEN ScoreMulti(q, ua[1])
  ELSE ScoreByLLM(q, o)

\* NoAnswerResult with the minimum of 1 that calculateScore enforces
NoAnswerResult_AtLeastOne(q) ==
  Result("POST", "noAnswer", 0,
         Max(Unit, IF IsDefined(q.weight) /\ q.weight[1] # 0
                     THEN q.weight[1] ELSE Unit),
         FALSE)

\* the branch of POST for a question without a submitted answer
NoAnswerResult(q) == Result("POST", "noAnswer", 0, WeightOr1(q), FALSE)

-----------------------------------------------------------------------------
(* Revision 2: GradingService *)

gradeSingleChoice(q, answer) ==
  IF ~TruthyStr(q.correctAnswer)
    THEN Result("gradeAnswer", "noCorrectAnswer", 0, Unit, FALSE)
  \* trim is not a function
  ELSE IF ~IsString(answer) \/ ~IsString(q.correctAnswer[1])
    THEN Thrown("gradeAnswer")
    ELSE LET isCorrect == ToLowerCase(Trim(answer))
                            = ToLowerCase(Trim(q.correctAnswer[1]))
         IN  Result("gradeAnswer", "single",
                    IF isCorrect THEN Unit ELSE 0, Unit, isCorrect)

\* userAnswer.split(",").map((ans) => ans.trim().toLowerCase())
UserSelections(answer) ==
  LET parts == Split(answer)
  IN  [i \in 1..Len(parts) |-> ToLowerCase(Trim(parts[i]))]

\* new Set(correctAnswers.map((ans) => ans.toLowerCase()))
CorrectSet(correctAnswers) ==
  {ToLowerCase(correctAnswers[j]) : j \in 1..Len(correctAnswers)}

\* Math.min(Math.round(f1Score * 10) / 10, 1), where precision is
\* correctCount / selections and recall is correctCount / setSize, so that
\* f1Score is 2 * correctCount / (selections + setSize)
F1Score(correctCount, selections, setSize) ==
  IF correctCount = 0 THEN 0
  ELSE Min(10 * RoundDiv(2 * correctCount * 10, selections + setSize), Unit)

gradeMultiChoice(q, answer) ==
  LET correctAnswers == IF IsDefined(q.correctAnswers)
                          THEN q.correctAnswers[1] ELSE <<>>
  IN  IF correctAnswers = <<>>
        THEN Result("gradeAnswer", "noCorrectAnswers", 0, Unit, FALSE)
      \* userAnswer.trim is not a function
      ELSE IF ~IsString(answer)
        THEN Thrown("gradeAnswer")
      ELSE IF Trim(answer) = <<>>
        THEN Result("gradeAnswer", "noAnswer", 0, Unit, FALSE)
      \* ans.toLowerCase is not a function
      ELSE IF \E j \in 1..Len(correctAnswers) : ~IsString(correctAnswers[j])
        THEN Thrown("gradeAnswer")
      ELSE
        LET userSelections == UserSelections(answer)
            correctSet     == CorrectSet(correctAnswers)
            correctCount   == Cardinality({i \in 1..Len(userSelections) :
                                             userSelections[i] \in correctSet})
            score          == F1Score(correctCount, Len(userSelections),
                                      Cardinality(correctSet))
        IN  Result("gradeAnswer", "multi", Min(score, Unit), Unit, score = Unit)

gradeOpenEnded(q, answer, o) ==
  LET maxScore == 5 * Unit IN
  \* trim is not a function, thrown and caught inside the try block
  IF ~IsString(answer)
    THEN Result("gradeAnswer", "caught", 0, maxScore, FALSE)
  ELSE IF Trim(answer) = <<>>
    THEN Result("gradeAnswer", "noAnswer", 0, maxScore, FALSE)
  ELSE IF o.kind = "ok"
    THEN \* Math.min(undefined, 5) is NaN, and undefined >= 3.5 is false
         IF IsDefined(o.score)
           THEN Result("gradeAnswer", "llm", Min(o.score[1], maxScore), maxScore,
                       10 * o.score[1] >= 7 * maxScore)
           ELSE [Result("gradeAnswer", "llm", 0, maxScore, FALSE)
                   EXCEPT !.nan = TRUE]
  ELSE IF o.kind = "unparsable"
    THEN Result("gradeAnswer", "unparsable", 0, maxScore, FALSE)
  ELSE Result("gradeAnswer", "error", 0, maxScore, FALSE)

gradeAnswer(q, ua, o) ==
  IF q = NullQuestion \/ ~IsDefined(ua)
    THEN Result("gradeAnswer", "missing", 0, Unit, FALSE)
  ELSE IF q.type \in {"yes-no", "multiple-choice-single"}
    THEN gradeSingleChoice(q, ua[1])
  ELSE IF q.type = "multiple-choice-multi"
    THEN gradeMultiChoice(q, ua[1])
  ELSE IF q.type \in {"scale", "rating"}
    THEN gradeOpenEnded(q, ua[1], o)
  ELSE Result("gradeAnswer", "unsupported", 0, Unit, FALSE)

\* whether the result was returned after the LLM call
UsesLLM(r) == r.path \in {"llm", "fallback", "unparsable", "error"}

-----------------------------------------------------------------------------
(* Inputs *)

\* the five supported question types and one that is not supported
Types ==
  {"yes-no", "multiple-choice-single", "multiple-choice-multi",
   "scale", "rating", "essay"}

\* question.correctAnswer: absent, empty, or an option label
CorrectAnswerValues == {Undefined, Some(<<>>), Some(<<"A">>)}

\* question.correctAnswers: absent, empty, one or two labels, two labels
\* equal up to case, and a label that holds a comma
CorrectAnswersValues ==
  {Undefined, Some(<<>>), Some(<< <<"A">> >>), Some(<< <<"A">>, <<"b">> >>),
   Some(<< <<"A">>, <<"a">> >>), Some(<< <<"a", ",", "b">> >>)}

\* question.weight: absent, negative, below the minimum of 1, and 10
Weights == {Undefined, Some(-1 * Unit), Some(Unit \div 2), Some(10 * Unit)}

Questions ==
  [type : Types, correctAnswer : CorrectAnswerValues,
   correctAnswers : CorrectAnswersValues, weight : Weights]

\* what the user may type or tick for one selection
Tokens == {<<"a">>, <<"A", " ">>, <<"b">>, <<"c">>, <<" ">>, <<>>}

\* the answers of up to n selections joined by commas
AnswersUpTo(n) ==
  {Join(ts) : ts \in UNION {[1..k -> Tokens] : k \in 1..n}}

Answers == AnswersUpTo(MaxSel)

-----------------------------------------------------------------------------
(* The values of the variables that a specification does not use *)

NoFeedback == [call |-> "unused", text |-> ""]

\* no second grading and no call of generateFeedback
NoCall ==
  /\ result2 = NoResult
  /\ feedback = NoFeedback
  /\ apiKey = TRUE

NoBody == [questions |-> <<>>, answers |-> <<>>, realWorldScore |-> Undefined]

\* a percentage is the fraction num / den, or NaN
NoTestResult ==
  [totalScore |-> 0, nan |-> FALSE, maxPossibleScore |-> 0,
   percentage |-> [num |-> 0, den |-> 1, nan |-> FALSE]]

\* a JSON value that is a string
Str(t) == [typeof |-> "string", text |-> t]

\* a JSON value that is a number
Num(t) == [typeof |-> "number", text |-> t]

\* a field that the object does not have
Absent == [typeof |-> "undefined", text |-> ""]

\* a JSON value in a boolean context, 0 left aside
Truthy(v) == v.typeof # "undefined" /\ v.text # ""

NoComparison ==
  [correlation |-> Absent, analysis |-> Absent, recommendations |-> <<>>]

NoResponse ==
  [status |-> 0, testResult |-> NoTestResult, comparison |-> NoComparison]

\* no POST request
NoPost ==
  /\ body = NoBody
  /\ cursor = 0
  /\ gradingResults = <<>>
  /\ response = NoResponse

\* no table has a row
EmptyTables == [document_stores |-> <<>>, vector_chunks |-> <<>>]

\* data/document-stores.json does not exist
NoStoreFile == [exists |-> FALSE, text |-> "none", stores |-> <<>>]

NoUpload == [pc |-> "none", status |-> 0, wrote |-> FALSE, success |-> FALSE]

NoGeneration == [pc |-> "none", status |-> 0, categories |-> <<>>]

\* no concurrent requests
NoRequests == requests = <<>>

\* an empty document store that nobody has called
NoStore ==
  /\ tables = EmptyTables
  /\ storeFile = NoStoreFile
  /\ calls = <<>>

\* nothing outside the graders
NoExt ==
  /\ NoRequests
  /\ NoStore
  /\ upload = NoUpload
  /\ uploadsDir = {}
  /\ generation = NoGeneration

-----------------------------------------------------------------------------
(* The grading step *)

Init ==
  /\ pc = "ready"
  /\ question \in Questions
  /\ userAnswer \in {Undefined} \cup {Some(a) : a \in Answers}
  /\ llm = NoLLM
  /\ result = NoResult
  /\ NoCall
  /\ NoPost
  /\ NoExt

\* a call of calculateScore(question, userAnswer, documentContent)
CalculateScore ==
  /\ pc = "ready"
  /\ \E o \in LLMOutcomes :
       /\ result' = calculateScore(question, userAnswer, o)
       /\ llm' = IF UsesLLM(result') THEN o ELSE NoLLM
  /\ pc' = "done"
  /\ UNCHANGED <<question, userAnswer>>
  /\ UNCHANGED <<callVars, postVars>>
  /\ UNCHANGED extVars

\* the loop body of POST (revision 1) for a question whose answer is not
\* among the submitted answers
PostNoAnswer ==
  /\ pc = "ready"
  /\ question # NullQuestion
  /\ ~IsDefined(userAnswer)
  /\ result' = NoAnswerResult(question)
  /\ llm' = NoLLM
  /\ pc' = "done"
  /\ UNCHANGED <<question, userAnswer>>
  /\ UNCHANGED <<callVars, postVars>>
  /\ UNCHANGED extVars

\* a call of GradingService.gradeAnswer(question, userAnswer)
GradeAnswer ==
  /\ pc = "ready"
  /\ \E o \in LLMOutcomes :
       /\ result' = gradeAnswer(question, userAnswer, o)
       /\ llm' = IF UsesLLM(result') THEN o ELSE NoLLM
  /\ pc' = "done"
  /\ UNCHANGED <<question, userAnswer>>
  /\ UNCHANGED <<callVars, postVars>>
  /\ UNCHANGED extVars

Next == CalculateScore \/ PostNoAnswer \/ GradeAnswer

Spec == Init /\ [][Next]_vars

-----------------------------------------------------------------------------
(* Multi-choice questions with many correct answers *)

\* the i-th option label: "b", "bb", "bbb", ...
Label(i) == [k \in 1..i |-> "b"]

\* a multi-choice question whose correct answers are the first n labels
WideQuestion(n, w) ==
  [type |-> "multiple-choice-multi", correctAnswer |-> Undefined,
   correctAnswers |-> Some([i \in 1..n |-> Label(i)]), weight |-> w]

\* the answer that ticks the first m labels and then k options that are
\* not correct
WideAnswer(m, k) ==
  Join([i \in 1..m |-> Label(i)] \o [i \in 1..k |-> <<"c">>])

InitWide ==
  /\ pc = "ready"
  /\ \E n \in 1..MaxCorrect, m \in 0..MaxCorrect, k \in 0..1 :
       /\ m <= n
       /\ m + k >= 1
       /\ question \in {WideQuestion(n, w) : w \in {Undefined, Some(10 * Unit)}}
       /\ userAnswer = Some(WideAnswer(m, k))
  /\ llm = NoLLM
  /\ result = NoResult
  /\ NoCall
  /\ NoPost
  /\ NoExt

NextWide == CalculateScore \/ GradeAnswer

SpecWide == InitWide /\ [][NextWide]_vars

-----------------------------------------------------------------------------
(* Feedback (revision 1) *)

GreatJob == "Great job! Your answer is correct."

GoodEffort == "Good effort. Review the material to improve your understanding."

\* the outcome of the chat-completion call of generateFeedback: it throws,
\* it returns text that trims to "", it returns a sentence
FeedbackOutcomes == {"throw", "blank", "text"}

\* FallbackFeedback praising every answer that scored at all
FallbackFeedback_AnyScore(r) ==
  IF ~r.nan /\ r.score > 0 THEN GreatJob ELSE GoodEffort

\* score === maxScore ? "Great job! ..." : "Good effort. ..."
FallbackFeedback(r) ==
  IF ~r.nan /\ r.score = r.maxScore THEN GreatJob ELSE GoodEffort

\* generateFeedback(question, userAnswer, score, maxScore, documentContent),
\* r carrying score and maxScore
generateFeedback(q, ua, r, key, f) ==
  IF q = NullQuestion \/ ~IsDefined(ua)
    THEN [call |-> "unused",
          text |-> "Unable to generate feedback due to missing data."]
  ELSE IF ~key
    THEN [call |-> "unused", text |-> FallbackFeedback(r)]
  ELSE IF f = "throw"
    THEN [call |-> "throw", text |-> FallbackFeedback(r)]
  ELSE IF f = "blank"
    THEN [call |-> "blank", text |-> "No feedback available."]
  ELSE [call |-> "text", text |-> "Well done."]

-----------------------------------------------------------------------------
(* Calls with missing and malformed arguments, repeated calls, feedback *)

\* question.correctAnswer: absent, an option label, not a string
CallCorrectAnswerValues == {Undefined, Some(<<"A">>), Some(NotAString)}

\* question.correctAnswers: absent, one label, a list with an entry that is
\* not a string
CallCorrectAnswersValues ==
  {Undefined, Some(<< <<"A">> >>), Some(<< <<"A">>, NotAString >>)}

CallWeights == {Undefined, Some(Unit \div 2), Some(10 * Unit)}

CallQuestions ==
  {NullQuestion}
    \cup [type : Types, correctAnswer : CallCorrectAnswerValues,
          correctAnswers : CallCorrectAnswersValues, weight : CallWeights]

\* the UserAnswer: missing, empty, one selection, two selections, not a string
CallAnswers ==
  {Undefined, Some(<<>>), Some(<<"a">>), Some(<<"a", ",", "b">>),
   Some(NotAString)}

InitCalls ==
  /\ pc = "ready"
  /\ question \in CallQuestions
  /\ userAnswer \in CallAnswers
  /\ llm = NoLLM
  /\ result = NoResult
  /\ result2 = NoResult
  /\ feedback = NoFeedback
  /\ apiKey \in BOOLEAN
  /\ NoPost
  /\ NoExt

\* a second call of the same scorer with the same question and answer
Regrade ==
  /\ pc = "done"
  /\ result.by \in {"calculateScore", "gradeAnswer"}
  /\ \E o \in LLMOutcomes :
       result2' = IF result.by = "calculateScore"
                    THEN calculateScore(question, userAnswer, o)
                    ELSE gradeAnswer(question, userAnswer, o)
  /\ pc' = "regraded"
  /\ UNCHANGED <<question, userAnswer, llm, result, feedback, apiKey>>
  /\ UNCHANGED postVars
  /\ UNCHANGED extVars

\* a call of generateFeedback with the score that calculateScore returned
GenerateFeedback ==
  /\ pc = "done"
  /\ result.by = "calculateScore"
  /\ result.path # "throws"
  /\ \E f \in FeedbackOutcomes :
       feedback' = generateFeedback(question, userAnswer, result, apiKey, f)
  /\ pc' = "fed"
  /\ UNCHANGED <<question, userAnswer, llm, result, result2, apiKey>>
  /\ UNCHANGED postVars
  /\ UNCHANGED extVars

NextCalls ==
  CalculateScore \/ PostNoAnswer \/ GradeAnswer \/ Regrade \/ GenerateFeedback

SpecCalls == InitCalls /\ [][NextCalls]_vars

-----------------------------------------------------------------------------
(* Aggregation *)

\* most GradingResults in a list that is aggregated
MaxResults == 3

\* an entry of gradingResults: the result r of a scorer for question id
GradingResultOf(id, r, text) ==
  [questionId |-> id, score |-> r.score, nan |-> r.nan,
   maxScore |-> r.maxScore, isCorrect |-> r.isCorrect, feedback |-> text,
   path |-> r.path]

\* gradingResults.reduce((sum, r) => sum + r.score, 0)
RECURSIVE SumScore(_)
SumScore(rs) ==
  IF rs = <<>> THEN 0 ELSE Head(rs).score + SumScore(Tail(rs))

\* gradingResults.reduce((sum, r) => sum + r.maxScore, 0)
RECURSIVE SumMaxScore(_)
SumMaxScore(rs) ==
  IF rs = <<>> THEN 0 ELSE Head(rs).maxScore + SumMaxScore(Tail(rs))

\* a sum is NaN when one of its terms is
AnyNaN(rs) == \E i \in 1..Len(rs) : rs[i].nan

ZeroPercent == [num |-> 0, den |-> 1, nan |-> FALSE]

\* the totals of POST (revision 1):
\* Math.round((totalScore / maxPossibleScore) * 1000) / 10
Totals(rs) ==
  LET totalScore       == SumScore(rs)
      maxPossibleScore == SumMaxScore(rs)
  IN  [totalScore |-> totalScore, nan |-> AnyNaN(rs),
       maxPossibleScore |-> maxPossibleScore,
       percentage |->
         IF maxPossibleScore > 0
           THEN [num |-> RoundDiv(1000 * totalScore, maxPossibleScore),
                 den |-> 10, nan |-> AnyNaN(rs)]
           ELSE ZeroPercent]

\* calculateOverallScore returning the fraction instead of the percentage
calculateOverallScore_Fraction(rs) ==
  IF rs = <<>>
    THEN [totalScore |-> 0, nan |-> FALSE, maxPossibleScore |-> 0,
          percentage |-> ZeroPercent]
    ELSE LET totalScore       == SumScore(rs)
             maxPossibleScore == SumMaxScore(rs)
         IN  [totalScore |-> totalScore, nan |-> AnyNaN(rs),
              maxPossibleScore |-> maxPossibleScore,
              percentage |->
                IF maxPossibleScore > 0
                  THEN [num |-> totalScore, den |-> maxPossibleScore,
                        nan |-> AnyNaN(rs)]
                  ELSE ZeroPercent]

\* calculateOverallScore without the check for empty results and without
\* the guard maxPossibleScore > 0: 0 / 0 is NaN
calculateOverallScore_NoGuards(rs) ==
  LET totalScore       == SumScore(rs)
      maxPossibleScore == SumMaxScore(rs)
  IN  [totalScore |-> totalScore, nan |-> AnyNaN(rs),
       maxPossibleScore |-> maxPossibleScore,
       percentage |->
         [num |-> 100 * totalScore, den |-> maxPossibleScore,
          nan |-> AnyNaN(rs) \/ maxPossibleScore = 0]]

\* GradingService.calculateOverallScore:
\* (totalScore / maxPossibleScore) * 100, not rounded
calculateOverallScore(rs) ==
  IF rs = <<>>
    THEN [totalScore |-> 0, nan |-> FALSE, maxPossibleScore |-> 0,
          percentage |-> ZeroPercent]
    ELSE LET totalScore       == SumScore(rs)
             maxPossibleScore == SumMaxScore(rs)
         IN  [totalScore |-> totalScore, nan |-> AnyNaN(rs),
              maxPossibleScore |-> maxPossibleScore,
              percentage |->
                IF maxPossibleScore > 0
                  THEN [num |-> 100 * totalScore, den |-> maxPossibleScore,
                        nan |-> AnyNaN(rs)]
                  ELSE ZeroPercent]

\* GradingResults that the graders produce: 0 of 1, 1 of 1, 10 of 10, 20 of
\* 10 (a selection ticked twice), 0 of -1 (no answer, weight -1), -1 of 5
\* and NaN of 5 (gradeOpenEnded)
ReportResults ==
  {GradingResultOf("q", Result("any", "any", sm[1], sm[2], sm[1] >= sm[2]), "")
     : sm \in {<<0, Unit>>, <<Unit, Unit>>, <<10 * Unit, 10 * Unit>>,
               <<20 * Unit, 10 * Unit>>, <<0, -1 * Unit>>, <<-1 * Unit, 5 * Unit>>}}
    \cup {GradingResultOf("q", [Result("any", "any", 0, 5 * Unit, FALSE)
                                 EXCEPT !.nan = TRUE], "")}

InitReport ==
  /\ pc = "results"
  /\ gradingResults \in UNION {[1..n -> ReportResults] : n \in 0..MaxResults}
  /\ question = NullQuestion
  /\ userAnswer = Undefined
  /\ llm = NoLLM
  /\ result = NoResult
  /\ NoCall
  /\ body = NoBody
  /\ cursor = 0
  /\ response = NoResponse
  /\ NoExt

\* the totals of POST (revision 1), whose list holds a result for every
\* question of a request that has at least one question
ReportTotals ==
  /\ pc = "results"
  /\ gradingResults # <<>>
  /\ response' = [response EXCEPT !.testResult = Totals(gradingResults)]
  /\ pc' = "totals"
  /\ UNCHANGED <<question, userAnswer, llm, result, callVars>>
  /\ UNCHANGED <<body, cursor, gradingResults>>
  /\ UNCHANGED extVars

\* a call of GradingService.calculateOverallScore(gradingResults)
CalculateOverallScore ==
  /\ pc = "results"
  /\ response' =
       [response EXCEPT !.testResult = calculateOverallScore(gradingResults)]
  /\ pc' = "overall"
  /\ UNCHANGED <<question, userAnswer, llm, result, callVars>>
  /\ UNCHANGED <<body, cursor, gradingResults>>
  /\ UNCHANGED extVars

NextReport == ReportTotals \/ CalculateOverallScore

SpecReport == InitReport /\ [][NextReport]_vars

-----------------------------------------------------------------------------
(* Comparison *)

\* the recommendations of generateComparison when the reply has none
DefaultRecommendations ==
  <<Str("Review the material regularly"), Str("Practice more questions"),
    Str("Seek help on difficult topics")>>

\* the outcome of the chat-completion call of generateComparison: it throws,
\* its text is not JSON, or it is a JSON object: as the prompt asks, without
\* any of the fields, with five recommendations, with a number as
\* correlation and no recommendation, with a number among the
\* recommendations
ComparisonOutcomes ==
  {[kind |-> "throw", correlation |-> Absent, analysis |-> Absent,
    recommendations |-> Undefined],
   [kind |-> "unparsable", correlation |-> Absent, analysis |-> Absent,
    recommendations |-> Undefined],
   [kind |-> "ok", correlation |-> Str("c"), analysis |-> Str("a"),
    recommendations |-> Some(<<Str("r1"), Str("r2"), Str("r3")>>)],
   [kind |-> "ok", correlation |-> Absent, analysis |-> Absent,
    recommendations |-> Undefined],
   [kind |-> "ok", correlation |-> Str("c"), analysis |-> Str("a"),
    recommendations |->
      Some(<<Str("r1"), Str("r2"), Str("r3"), Str("r4"), Str("r5")>>)],
   [kind |-> "ok", correlation |-> Num("1"), analysis |-> Str("a"),
    recommendations |-> Some(<<>>)],
   [kind |-> "ok", correlation |-> Str("c"), analysis |-> Str(""),
    recommendations |-> Some(<<Str("r1"), Num("2"), Str("r3")>>)]}

\* generateComparison(questions, answers, gradingResults, documentContent);
\* recommendations that are not an array are those of an outcome whose
\* recommendations are Undefined
generateComparison(c) ==
  IF c.kind = "throw"
    THEN [correlation |-> Str("N/A"),
          analysis |->
            Str("Performance analysis could not be generated due to an error."),
          recommendations |-> DefaultRecommendations]
  ELSE IF c.kind = "unparsable"
    THEN [correlation |-> Str("N/A"),
          analysis |-> Str("Performance analysis could not be generated."),
          recommendations |-> DefaultRecommendations]
  ELSE [correlation |->
          IF Truthy(c.correlation) THEN c.correlation ELSE Str("N/A"),
        analysis |->
          IF Truthy(c.analysis) THEN c.analysis
          ELSE Str("No analysis available."),
        recommendations |->
          IF IsDefined(c.recommendations) THEN c.recommendations[1]
          ELSE DefaultRecommendations]

Abs(x) == IF x >= 0 THEN x ELSE -x

\* ScoreComparison.analyzePerformance(aiTestResult, realWorldScore), the
\* real-world score counted in percent; every comparison with NaN is false
analyzePerformance(t, realWorldScore) ==
  IF ~IsDefined(realWorldScore) \/ realWorldScore[1] = 0
    THEN [correlation |-> Str("No real-world score provided"),
          analysis |-> Str("AI assessment score"),
          recommendations |->
            <<Str("Take a real assessment to compare results"),
              Str("Continue studying the material"),
              Str("Review areas where you scored lower")>>]
    ELSE
      LET p       == t.percentage
          real    == realWorldScore[1]
          \* difference <= k
          Within(k) == ~p.nan /\ Abs(p.num - real * p.den) <= k * p.den
          \* aiScore < k
          Below(k)  == ~p.nan /\ p.num < k * p.den
          byDifference ==
            IF Within(5)
              THEN <<Str("The AI assessment is accurately measuring your knowledge"),
                     Str("Continue with your current study approach")>>
            ELSE IF Within(15)
              THEN <<Str("Minor discrepancies may be due to question style differences"),
                     Str("Focus on areas where you struggled in both assessments")>>
            ELSE IF Within(25)
              THEN IF ~p.nan /\ p.num > real * p.den
                     THEN <<Str("AI test may be easier - focus more on practical application"),
                            Str("Practice with more challenging real-world scenarios")>>
                     ELSE <<Str("AI test may be harder - you might perform better in real scenarios"),
                            Str("Build confidence through additional practice")>>
            ELSE <<Str("Consider reviewing the study material and testing approach"),
                   Str("The AI assessment may not fully capture the real-world test format"),
                   Str("Seek additional resources or tutoring")>>
          byScore ==
            IF Below(60)
              THEN <<Str("Focus on fundamental concepts - review the source material thoroughly"),
                     Str("Consider breaking down complex topics into smaller sections")>>
            ELSE IF Below(80)
              THEN <<Str("Good foundation - work on more challenging aspects of the material"),
                     Str("Practice applying concepts in different contexts")>>
            ELSE <<Str("Excellent understanding - consider advanced topics in this area"),
                   Str("Help others to reinforce your knowledge")>>
      IN  [correlation |->
             Str(IF Within(5) THEN "Excellent correlation"
                 ELSE IF Within(15) THEN "Good correlation"
                 ELSE IF Within(25) THEN "Moderate correlation"
                 ELSE "Poor correlation"),
           analysis |-> Str("AI assessment compared with real-world performance"),
           recommendations |-> byDifference \o byScore]

-----------------------------------------------------------------------------
(* POST /api/grade *)

\* most questions of a request
MaxQuestions == 2

\* most answers of a request
MaxAnswers == 2

\* the questions of a request, but for their ids: a multi-choice question
\* of weight 10, a yes-no question without weight, a scale question
PostQuestionShapes ==
  {[type |-> "multiple-choice-multi", correctAnswer |-> Undefined,
    correctAnswers |-> Some(<< <<"A">> >>), weight |-> Some(10 * Unit)],
   [type |-> "yes-no", correctAnswer |-> Some(<<"A">>),
    correctAnswers |-> Undefined, weight |-> Undefined],
   [type |-> "scale", correctAnswer |-> Undefined,
    correctAnswers |-> Undefined, weight |-> Some(10 * Unit)]}

\* the question of shape q with the id i
WithId(q, i) ==
  [id |-> i, type |-> q.type, correctAnswer |-> q.correctAnswer,
   correctAnswers |-> q.correctAnswers, weight |-> q.weight]

\* the questions of a request: the i-th question has the id i
PostQuestions ==
  UNION {{[i \in 1..n |-> WithId(qs[i], i)] : qs \in [1..n -> PostQuestionShapes]}
           : n \in 0..MaxQuestions}

\* the answers of a request: each names a question id, also one that no
\* question has, and holds one selection or the same selection twice
PostAnswers ==
  UNION {[1..n -> [questionId : 1..MaxQuestions,
                   answer : {<<"a">>, <<"a", ",", "a">>}]]
           : n \in 0..MaxAnswers}

\* the outcomes of the grading LLM call in a request: it throws, it scores -1
PostLLMOutcomes ==
  {LLMThrows, [kind |-> "ok", score |-> Some(-1 * Unit), isCorrect |-> FALSE]}

InitPost ==
  /\ pc = "request"
  /\ body \in [questions : PostQuestions, answers : PostAnswers,
                realWorldScore : {Undefined, Some(50)}]
  /\ apiKey \in BOOLEAN
  /\ cursor = 0
  /\ gradingResults = <<>>
  /\ response = NoResponse
  /\ question = NullQuestion
  /\ userAnswer = Undefined
  /\ llm = NoLLM
  /\ result = NoResult
  /\ result2 = NoResult
  /\ feedback = NoFeedback
  /\ NoExt

\* NextResponse.json({ error }, { status })
ErrorResponse(status) == [NoResponse EXCEPT !.status = status]

\* answers.find((a) => a.questionId === id), as the UserAnswer handed on
FindAnswer(answers, id) ==
  IF \E i \in 1..Len(answers) : answers[i].questionId = id
    THEN LET i == CHOOSE k \in 1..Len(answers) :
                    /\ answers[k].questionId = id
                    /\ \A j \in 1..(k - 1) : answers[j].questionId # id
         IN  Some(answers[i].answer)
    ELSE Undefined

\* questions.find((q) => q.id === id)
FindQuestion(questions, id) ==
  IF \E i \in 1..Len(questions) : questions[i].id = id
    THEN LET i == CHOOSE k \in 1..Len(questions) :
                    /\ questions[k].id = id
                    /\ \A j \in 1..(k - 1) : questions[j].id # id
         IN  Some(questions[i])
    ELSE Undefined

\* POST (revision 1) up to the grading loop; the bodies are well formed, so
\* that the checks of their structure pass
Post1Begin ==
  /\ pc = "request"
  /\ \E documentFound \in BOOLEAN :
       IF ~apiKey
         THEN pc' = "responded1" /\ response' = ErrorResponse(500)
                /\ cursor' = cursor
       ELSE IF ~documentFound
         THEN pc' = "responded1" /\ response' = ErrorResponse(404)
                /\ cursor' = cursor
       ELSE IF body.questions = <<>>
         THEN pc' = "responded1" /\ response' = ErrorResponse(400)
                /\ cursor' = cursor
       ELSE pc' = "grading1" /\ cursor' = 1 /\ response' = response
  /\ UNCHANGED <<question, userAnswer, llm, result, callVars>>
  /\ UNCHANGED <<body, gradingResults>>
  /\ UNCHANGED extVars

\* one round of the loop over the questions (revision 1): the answers are
\* strings, so that calculateScore does not throw
Post1Grade ==
  /\ pc = "grading1"
  /\ cursor <= Len(body.questions)
  /\ LET q  == body.questions[cursor]
         ua == FindAnswer(body.answers, q.id)
     IN  IF ~IsDefined(ua)
           THEN gradingResults' =
                  Append(gradingResults,
                         GradingResultOf(q.id, NoAnswerResult(q),
                                         "No answer provided"))
           ELSE \E o \in PostLLMOutcomes, f \in FeedbackOutcomes :
                  LET r == calculateScore(q, ua, o)
                  IN  gradingResults' =
                        Append(gradingResults,
                               GradingResultOf(q.id, r,
                                 generateFeedback(q, ua, r, apiKey, f).text))
  /\ cursor' = cursor + 1
  /\ UNCHANGED <<pc, question, userAnswer, llm, result, callVars>>
  /\ UNCHANGED <<body, response>>
  /\ UNCHANGED extVars

\* the totals, the comparison and the response (revision 1)
Post1Respond ==
  /\ pc = "grading1"
  /\ cursor > Len(body.questions)
  /\ \E c \in ComparisonOutcomes :
       response' = [status |-> 200, testResult |-> Totals(gradingResults),
                    comparison |-> generateComparison(c)]
  /\ pc' = "responded1"
  /\ UNCHANGED <<question, userAnswer, llm, result, callVars>>
  /\ UNCHANGED <<body, cursor, gradingResults>>
  /\ UNCHANGED extVars

\* POST (revision 2) up to the grading loop
Post2Begin ==
  /\ pc = "request"
  /\ IF ~apiKey
       THEN pc' = "responded2" /\ response' = ErrorResponse(500)
              /\ cursor' = cursor
     ELSE IF body.questions = <<>>
       THEN pc' = "responded2" /\ response' = ErrorResponse(400)
              /\ cursor' = cursor
     ELSE pc' = "grading2" /\ cursor' = 1 /\ response' = response
  /\ UNCHANGED <<question, userAnswer, llm, result, callVars>>
  /\ UNCHANGED <<body, gradingResults>>
  /\ UNCHANGED extVars

\* one round of the loop over the answers (revision 2): the answers are
\* strings, so that gradeAnswer does not throw; the feedback of a result is
\* the text of the return statement that built it
Post2Grade ==
  /\ pc = "grading2"
  /\ cursor <= Len(body.answers)
  /\ LET answer == body.answers[cursor]
         found  == FindQuestion(body.questions, answer.questionId)
     IN  IF IsDefined(found)
           THEN \E o \in PostLLMOutcomes :
                  LET r == gradeAnswer(found[1], Some(answer.answer), o)
                  IN  gradingResults' =
                        Append(gradingResults,
                               GradingResultOf(found[1].id, r, r.path))
           ELSE gradingResults' = gradingResults
  /\ cursor' = cursor + 1
  /\ UNCHANGED <<pc, question, userAnswer, llm, result, callVars>>
  /\ UNCHANGED <<body, response>>
  /\ UNCHANGED extVars

\* the overall score, the comparison and the response (revision 2)
Post2Respond ==
  /\ pc = "grading2"
  /\ cursor > Len(body.answers)
  /\ LET testResult == calculateOverallScore(gradingResults)
     IN  response' =
           [status |-> 200, testResult |-> testResult,
            comparison |-> analyzePerformance(testResult, body.realWorldScore)]
  /\ pc' = "responded2"
  /\ UNCHANGED <<question, userAnswer, llm, result, callVars>>
  /\ UNCHANGED <<body, cursor, gradingResults>>
  /\ UNCHANGED extVars

NextPost ==
  \/ Post1Begin \/ Post1Grade \/ Post1Respond
  \/ Post2Begin \/ Post2Grade \/ Post2Respond

SpecPost == InitPost /\ [][NextPost]_vars

-----------------------------------------------------------------------------
(* Two POST /api/grade requests (revision 1) that run concurrently.  The   *)
(* handler runs on one thread: a request loses control at an await only,   *)
(* so one step is the code between two awaits.  What the LLM answers to a  *)
(* request is drawn with the request, so that the run of a request can be  *)
(* compared with its run alone.                                            *)

Requests == {1, 2}

\* the questions of the concurrent requests
ConcQuestions ==
  LET shape(t) == CHOOSE q \in PostQuestionShapes : q.type = t
  IN  {<<WithId(shape("multiple-choice-multi"), 1)>>,
       <<WithId(shape("multiple-choice-multi"), 1), WithId(shape("scale"), 2)>>,
       <<WithId(shape("scale"), 1), WithId(shape("yes-no"), 2)>>}

\* the answers of the concurrent requests
ConcAnswers ==
  {<<>>,
   <<[questionId |-> 1, answer |-> <<"a">>]>>,
   <<[questionId |-> 2, answer |-> <<"a", ",", "a">>],
     [questionId |-> 1, answer |-> <<"a">>]>>,
   <<[questionId |-> 1, answer |-> <<"a">>],
     [questionId |-> 1, answer |-> <<"a", ",", "a">>]>>}

\* a request at the head of the grading loop: const gradingResults = []
NewRequest(b, o, f) ==
  [body |-> b, llmOutcome |-> o, feedbackOutcome |-> f, pc |-> "grading",
   cursor |-> 1, scored |-> NoResult, gradingResults |-> <<>>,
   testResult |-> NoTestResult, status |-> 0]

\* gradingResults.push(g) of request k pushing to the list of request 1
PushResult_Shared(rq, k, g) ==
  [rq EXCEPT ![1].gradingResults = Append(@, g),
             ![k].cursor = @ + 1, ![k].pc = "grading"]

\* gradingResults.push(g) of request k, and on to the next question
PushResult(rq, k, g) ==
  [rq EXCEPT ![k].gradingResults = Append(@, g),
             ![k].cursor = @ + 1, ![k].pc = "grading"]

InitConc ==
  /\ requests \in
       [Requests -> {NewRequest(b, o, f) :
                       b \in [questions : ConcQuestions, answers : ConcAnswers,
                              realWorldScore : {Undefined}],
                       o \in PostLLMOutcomes, f \in {"throw", "text"}}]
  /\ pc = "none"
  /\ question = NullQuestion
  /\ userAnswer = Undefined
  /\ llm = NoLLM
  /\ result = NoResult
  /\ NoCall
  /\ NoPost
  /\ NoStore
  /\ upload = NoUpload
  /\ uploadsDir = {}
  /\ generation = NoGeneration

\* a round of the loop for a question without answer: no await
ConcNoAnswer(k) ==
  LET r == requests[k] IN
  /\ r.pc = "grading"
  /\ r.cursor <= Len(r.body.questions)
  /\ LET q == r.body.questions[r.cursor] IN
       /\ ~IsDefined(FindAnswer(r.body.answers, q.id))
       /\ requests' =
            PushResult(requests, k,
                       GradingResultOf(q.id, NoAnswerResult(q),
                                       "No answer provided"))
  /\ UNCHANGED <<gradeVars, storeVars, uploadVars, generation>>

\* a round of the loop up to the end of await calculateScore(...)
ConcScore(k) ==
  LET r == requests[k] IN
  /\ r.pc = "grading"
  /\ r.cursor <= Len(r.body.questions)
  /\ LET q  == r.body.questions[r.cursor]
         ua == FindAnswer(r.body.answers, q.id)
     IN  /\ IsDefined(ua)
         /\ requests' =
              [requests EXCEPT ![k].scored = calculateScore(q, ua, r.llmOutcome),
                               ![k].pc = "scored"]
  /\ UNCHANGED <<gradeVars, storeVars, uploadVars, generation>>

\* the rest of the round: await generateFeedback(...) and the push
ConcFeedback(k) ==
  LET r == requests[k] IN
  /\ r.pc = "scored"
  /\ LET q  == r.body.questions[r.cursor]
         ua == FindAnswer(r.body.answers, q.id)
     IN  requests' =
           PushResult(requests, k,
                      GradingResultOf(q.id, r.scored,
                        generateFeedback(q, ua, r.scored, TRUE,
                                         r.feedbackOutcome).text))
  /\ UNCHANGED <<gradeVars, storeVars, uploadVars, generation>>

\* the totals, await generateComparison(...) and the response
ConcRespond(k) ==
  LET r == requests[k] IN
  /\ r.pc = "grading"
  /\ r.cursor > Len(r.body.questions)
  /\ requests' = [requests EXCEPT ![k].testResult = Totals(r.gradingResults),
                                   ![k].status = 200,
                                   ![k].pc = "responded"]
  /\ UNCHANGED <<gradeVars, storeVars, uploadVars, generation>>

NextConc ==
  \E k \in Requests :
    ConcNoAnswer(k) \/ ConcScore(k) \/ ConcFeedback(k) \/ ConcRespond(k)

SpecConc == InitConc /\ [][NextConc]_vars

-----------------------------------------------------------------------------
(* The document store, src/lib/document-store.ts.  The file holds two      *)
(* revisions of VectorStoreService: one over the SQLite database           *)
(* data/vector_store.db (lines 1-188), one over the JSON file              *)
(* data/document-stores.json (lines 190-251).  The content of a document   *)
(* and the text of a chunk are atoms; "" is the empty string.              *)

\* most calls of VectorStoreService in a behaviour
MaxCalls == 3

\* the ids that the upload handler gives to documents
DocIds == {"doc_1", "doc_2"}

\* the keys that every object inherits from Object.prototype, as far as a
\* request can name them
ObjectPrototypeKeys == {"constructor"}

\* the ids that a request can ask for: documentId comes from its body
RequestIds == DocIds \cup ObjectPrototypeKeys

\* the stores that the upload handlers build: with the chunks of the
\* document in the order of their index, and without chunks
Stores ==
  {[originalContent |-> Some("x"),
    chunks |-> Some(<<[text |-> "x0", index |-> 0],
                      [text |-> "x1", index |-> 1]>>)],
   [originalContent |-> Some("y"),
    chunks |-> Some(<<[text |-> "y0", index |-> 0]>>)],
   [originalContent |-> Some("z"), chunks |-> Undefined]}

\* f with the key k bound to v
WithKey(f, k, v) ==
  [x \in (DOMAIN f) \cup {k} |-> IF x = k THEN v ELSE f[x]]

\* f without the key k
WithoutKey(f, k) == [x \in (DOMAIN f) \ {k} |-> f[x]]

\* the rows of vector_chunks without those of the document id
WithoutChunksOf(rows, id) ==
  SelectSeq(rows, LAMBDA r : r.document_id # id)

\* SELECT ... FROM vector_chunks WHERE document_id = ? ORDER BY chunk_index,
\* rows of one index in the order of their insertion
ChunksOf(t, id) ==
  LET rows == SelectSeq(t.vector_chunks, LAMBDA r : r.document_id = id)
      n    == Len(rows)
      p    == CHOOSE q \in [1..n -> 1..n] :
                /\ \A i, j \in 1..n : i # j => q[i] # q[j]
                /\ \A i, j \in 1..n :
                     i < j =>
                       \/ rows[q[i]].chunk_index < rows[q[j]].chunk_index
                       \/ /\ rows[q[i]].chunk_index = rows[q[j]].chunk_index
                          /\ q[i] < q[j]
  IN  [i \in 1..n |-> [text |-> rows[p[i]].chunk_text,
                       index |-> rows[p[i]].chunk_index]]

\* getDocumentStore (SQLite): what it returns
getDocumentStoreDb(t, id) ==
  IF id \notin DOMAIN t.document_stores
    THEN Undefined
    ELSE Some([kind |-> "object",
               originalContent |-> Some(t.document_stores[id]),
               chunks |-> Some(ChunksOf(t, id))])

\* the statements of the transaction of setDocumentStore, the insertion of
\* the chunk failAt failing (0: none fails), without the rollback
SetStatements(t, id, store, failAt) ==
  LET content  == IF IsDefined(store.originalContent)
                    THEN store.originalContent[1] ELSE ""
      chunks   == IF IsDefined(store.chunks) THEN store.chunks[1] ELSE <<>>
      inserted == IF failAt = 0 THEN Len(chunks) ELSE failAt - 1
  IN  [document_stores |-> WithKey(t.document_stores, id, content),
       vector_chunks |->
         WithoutChunksOf(t.vector_chunks, id) \o
           [i \in 1..inserted |->
              [document_id |-> id, chunk_text |-> chunks[i].text,
               chunk_index |-> chunks[i].index]]]

\* setDocumentStore (SQLite): the tables it leaves; db.transaction rolls
\* back when a statement throws, and the catch swallows the error
setDocumentStoreDb(t, id, store, failAt) ==
  IF failAt = 0 THEN SetStatements(t, id, store, 0) ELSE t

\* deleteDocumentStore (SQLite): the tables it leaves and what it returns;
\* the chunks go with the document when foreign keys are enforced
deleteDocumentStoreDb(t, id, cascade) ==
  [tables |->
     [document_stores |-> WithoutKey(t.document_stores, id),
      vector_chunks |-> IF cascade /\ id \in DOMAIN t.document_stores
                          THEN WithoutChunksOf(t.vector_chunks, id)
                          ELSE t.vector_chunks],
   returned |-> id \in DOMAIN t.document_stores]

\* JSON.parse(JSON.stringify(store)): a field that is undefined is left
\* out, and comes back as undefined
JsonRoundTrip(store) ==
  [kind |-> "object", originalContent |-> store.originalContent,
   chunks |-> store.chunks]

\* a file with the stores written as JSON
StoreFileOf(stores) == [exists |-> TRUE, text |-> "json", stores |-> stores]

\* a file that a failed write has cut short: not JSON
TruncatedFile == [exists |-> TRUE, text |-> "truncated", stores |-> <<>>]

\* stores[documentId] of the parsed file: the own property, else the
\* property inherited from Object.prototype, else undefined
Property(stores, id) ==
  IF id \in DOMAIN stores THEN Some(stores[id])
  ELSE IF id \in ObjectPrototypeKeys
    THEN Some([kind |-> "function", originalContent |-> Undefined,
               chunks |-> Undefined])
  ELSE Undefined

\* getDocumentStore (JSON file): what it returns; JSON.parse throws on a
\* file that is not JSON, and the catch returns undefined
getDocumentStoreFile(f, id) ==
  IF ~f.exists \/ f.text # "json" THEN Undefined ELSE Property(f.stores, id)

\* the files that setDocumentStore (JSON file) may leave: writeFileSync
\* failing leaves the file as it was, or cut short
setDocumentStoreFile(f, id, store, fail) ==
  IF f.exists /\ f.text # "json" THEN {f}
  ELSE IF fail = "none"
    THEN {StoreFileOf(WithKey(f.stores, id, JsonRoundTrip(store)))}
  ELSE {f, TruncatedFile}

\* deleteDocumentStore (JSON file): the file it leaves and what it returns
deleteDocumentStoreFile(f, id) ==
  IF ~f.exists \/ f.text # "json" \/ ~IsDefined(Property(f.stores, id))
    THEN [file |-> f, returned |-> FALSE]
    ELSE [file |-> StoreFileOf(WithoutKey(f.stores, id)), returned |-> TRUE]

\* the revisions of VectorStoreService
Revisions == {"sqlite", "json"}

\* a behaviour calls one revision
RevisionInUse(rev) == IF calls = <<>> THEN TRUE ELSE calls[1].rev = rev

\* the store argument of a call that has none
NoStoreArg == [originalContent |-> Undefined, chunks |-> Undefined]

\* the record of a call
Call(rev, op, id, store, failed, returned) ==
  [rev |-> rev, op |-> op, id |-> id, store |-> store, failed |-> failed,
   returned |-> returned]

InitStore ==
  /\ NoStore
  /\ NoRequests
  /\ upload = NoUpload
  /\ uploadsDir = {}
  /\ generation = NoGeneration
  /\ pc = "none"
  /\ question = NullQuestion
  /\ userAnswer = Undefined
  /\ llm = NoLLM
  /\ result = NoResult
  /\ NoCall
  /\ NoPost

\* VectorStoreService.setDocumentStore(id, store) of the SQLite revision
SetDocumentStoreDb ==
  /\ Len(calls) < MaxCalls
  /\ RevisionInUse("sqlite")
  /\ \E id \in DocIds, store \in Stores, failAt \in 0..2 :
       /\ failAt > 0 => IsDefined(store.chunks) /\ failAt <= Len(store.chunks[1])
       /\ tables' = setDocumentStoreDb(tables, id, store, failAt)
       /\ calls' = Append(calls, Call("sqlite", "set", id, store, failAt > 0,
                                      Undefined))
  /\ UNCHANGED <<gradeVars, requests, storeFile, uploadVars, generation>>

\* VectorStoreService.setDocumentStore(id, store) of the JSON revision
SetDocumentStoreFile ==
  /\ Len(calls) < MaxCalls
  /\ RevisionInUse("json")
  /\ \E id \in DocIds, store \in Stores, fail \in {"none", "write"} :
       /\ storeFile' \in setDocumentStoreFile(storeFile, id, store, fail)
       /\ calls' = Append(calls, Call("json", "set", id, store,
                                      fail # "none", Undefined))
  /\ UNCHANGED <<gradeVars, requests, tables, uploadVars, generation>>

\* VectorStoreService.getDocumentStore(id)
GetDocumentStore ==
  /\ Len(calls) < MaxCalls
  /\ \E rev \in Revisions, id \in RequestIds :
       /\ RevisionInUse(rev)
       /\ calls' = Append(calls,
                          Call(rev, "get", id, NoStoreArg, FALSE,
                               IF rev = "sqlite"
                                 THEN getDocumentStoreDb(tables, id)
                                 ELSE getDocumentStoreFile(storeFile, id)))
  /\ UNCHANGED <<gradeVars, requests, tables, storeFile, uploadVars, generation>>

\* VectorStoreService.deleteDocumentStore(id) of the SQLite revision
DeleteDocumentStoreDb ==
  /\ Len(calls) < MaxCalls
  /\ RevisionInUse("sqlite")
  /\ \E id \in RequestIds, cascade \in BOOLEAN :
       LET d == deleteDocumentStoreDb(tables, id, cascade)
       IN  /\ tables' = d.tables
           /\ calls' = Append(calls, Call("sqlite", "delete", id, NoStoreArg,
                                          FALSE, Some(d.returned)))
  /\ UNCHANGED <<gradeVars, requests, storeFile, uploadVars, generation>>

\* VectorStoreService.deleteDocumentStore(id) of the JSON revision
DeleteDocumentStoreFile ==
  /\ Len(calls) < MaxCalls
  /\ RevisionInUse("json")
  /\ \E id \in RequestIds :
       LET d == deleteDocumentStoreFile(storeFile, id)
       IN  /\ storeFile' = d.file
           /\ calls' = Append(calls, Call("json", "delete", id, NoStoreArg,
                                          FALSE, Some(d.returned)))
  /\ UNCHANGED <<gradeVars, requests, tables, uploadVars, generation>>

NextStore ==
  \/ SetDocumentStoreDb \/ SetDocumentStoreFile
  \/ GetDocumentStore
  \/ DeleteDocumentStoreDb \/ DeleteDocumentStoreFile

SpecStore == InitStore /\ [][NextStore]_vars

-----------------------------------------------------------------------------
(* POST /api/upload.  The sources hold three revisions of the handler:     *)
(*   1. src/unnamed/part_002, lines 173-301;                               *)
(*   2. src/unnamed/part_003, lines 127-221;                               *)
(*   3. src/unnamed/part_003, lines 394-498.                               *)
(* A request is one behaviour: its revision, the revision of the document  *)
(* store behind it, the file and the API key are drawn in Init.  The text  *)
(* that can be extracted from the file is an atom, "" when there is none.  *)

UploadRevisions == {1, 2, 3}

\* the types of PDF, DOCX, DOC and TXT files
DocumentTypes ==
  {"application/pdf",
   "application/vnd.openxmlformats-officedocument.wordprocessingml.document",
   "application/msword",
   "text/plain"}

\* the types of the uploaded files: file.type is the Content-Type that the
\* client gave to the part
FileTypes == DocumentTypes \cup {"image/png", "constructor"}

\* 10 * 1024 * 1024
MaxFileSize == 10485760

\* the uploaded files, and no file
Files ==
  {Undefined} \cup
  {Some([type |-> t, size |-> n, text |-> x]) :
     t \in FileTypes, n \in {MaxFileSize, MaxFileSize + 1}, x \in {"", "x"}}

\* the type passes the handler's validation: allowedTypes.includes(file.type)
\* in the revisions 1 and 2, loaderMap[file.type] in the revision 3, where
\* the keys inherited from Object.prototype are found too
TypeAllowed(rev, type) ==
  IF rev = 1 THEN type \in DocumentTypes
  ELSE IF rev = 2 THEN type \in DocumentTypes \ {"application/msword"}
  ELSE type \in DocumentTypes \cup ObjectPrototypeKeys

\* DocumentProcessor.processFile throws although the text was extracted:
\* revision 1 refuses a blank text, revision 3 has no loader for a type
\* that is not a key of loaderMap itself
ProcessFileThrows(rev, file) ==
  \/ rev = 1 /\ file.text = ""
  \/ rev = 3 /\ file.type \notin DocumentTypes

\* splitDocuments: the chunks of the text, none for an empty text
SplitDocuments(text) == IF text = "" THEN <<>> ELSE <<text>>

\* documents.map((doc) => doc.pageContent).join("\n"), for at most one chunk
JoinContent(documents) == IF documents = <<>> THEN "" ELSE documents[1]

\* the store that createDocumentStore hands to setDocumentStore: with the
\* chunks and their indexes in the revision 3, without chunks before
DocumentStoreData(rev, documents) ==
  [originalContent |-> Some(JoinContent(documents)),
   chunks |-> IF rev = 3
                THEN Some([i \in 1..Len(documents) |->
                             [text |-> documents[i], index |-> i - 1]])
                ELSE Undefined]

\* the request before the handler runs
NewUpload(rev, store, file) ==
  [pc |-> "request", rev |-> rev, store |-> store, file |-> file,
   wrote |-> FALSE, filePath |-> "none", documentId |-> "none",
   documents |-> <<>>, status |-> 0, success |-> FALSE]

\* the handler returns NextResponse.json(..., { status })
UploadResponds(u, status) == [u EXCEPT !.pc = "responded", !.status = status]

InitUpload ==
  /\ upload \in {NewUpload(rev, store, file) :
                    rev \in UploadRevisions, store \in Revisions, file \in Files}
  /\ uploadsDir = {}
  /\ apiKey \in BOOLEAN
  /\ NoStore
  /\ NoRequests
  /\ generation = NoGeneration
  /\ pc = "none"
  /\ question = NullQuestion
  /\ userAnswer = Undefined
  /\ llm = NoLLM
  /\ result = NoResult
  /\ result2 = NoResult
  /\ feedback = NoFeedback
  /\ NoPost

\* the handler up to fs.writeFileSync(filePath, buffer)
UploadBegin ==
  /\ upload.pc = "request"
  /\ IF ~apiKey
       THEN upload' = UploadResponds(upload, 500) /\ uploadsDir' = uploadsDir
     ELSE IF ~IsDefined(upload.file)
       THEN upload' = UploadResponds(upload, 400) /\ uploadsDir' = uploadsDir
     ELSE IF ~TypeAllowed(upload.rev, upload.file[1].type)
       THEN upload' = UploadResponds(upload, 400) /\ uploadsDir' = uploadsDir
     ELSE IF upload.file[1].size > MaxFileSize
       THEN upload' = UploadResponds(upload, 400) /\ uploadsDir' = uploadsDir
     ELSE /\ upload' = [upload EXCEPT !.pc = "written", !.wrote = TRUE,
                                       !.filePath = "uploads/file",
                                       !.documentId = "doc_1"]
          /\ uploadsDir' = uploadsDir \cup {"uploads/file"}
  /\ UNCHANGED <<gradeVars, requests, storeVars, generation>>

\* what the handler does when processing throws: the revisions 1 and 3
\* unlink the file in their inner catch, the revision 2 has none
UploadFails(u, dir) ==
  [upload |-> UploadResponds(u, 500),
   uploadsDir |-> IF u.rev = 2 THEN dir ELSE dir \ {u.filePath}]

\* await DocumentProcessor.processFile(...)
UploadProcess ==
  /\ upload.pc = "written"
  /\ \E extracted \in BOOLEAN :
       IF ~extracted \/ ProcessFileThrows(upload.rev, upload.file[1])
         THEN /\ upload' = UploadFails(upload, uploadsDir).upload
              /\ uploadsDir' = UploadFails(upload, uploadsDir).uploadsDir
         ELSE /\ upload' = [upload EXCEPT
                              !.pc = "processed",
                              !.documents = SplitDocuments(upload.file[1].text)]
              /\ uploadsDir' = uploadsDir
  /\ UNCHANGED <<gradeVars, requests, storeVars, generation>>

\* await VectorStoreServiceLocal.createDocumentStore(...), the cleanup and
\* the response
UploadStore ==
  /\ upload.pc = "processed"
  /\ \E embedded \in BOOLEAN, written \in BOOLEAN :
       IF ~embedded
         THEN /\ upload' = UploadFails(upload, uploadsDir).upload
              /\ uploadsDir' = UploadFails(upload, uploadsDir).uploadsDir
              /\ UNCHANGED <<tables, storeFile>>
         ELSE LET data == DocumentStoreData(upload.rev, upload.documents) IN
              /\ IF upload.store = "sqlite"
                   THEN /\ tables' = setDocumentStoreDb(
                                        tables, upload.documentId, data,
                                        IF written THEN 0 ELSE 1)
                        /\ storeFile' = storeFile
                   ELSE /\ storeFile' \in setDocumentStoreFile(
                                             storeFile, upload.documentId, data,
                                             IF written THEN "none" ELSE "write")
                        /\ tables' = tables
              /\ uploadsDir' = uploadsDir \ {upload.filePath}
              /\ upload' = [UploadResponds(upload, 200) EXCEPT !.success = TRUE]
  /\ UNCHANGED <<gradeVars, requests, calls, generation>>

NextUpload == UploadBegin \/ UploadProcess \/ UploadStore

SpecUpload == InitUpload /\ [][NextUpload]_vars

-----------------------------------------------------------------------------
(* Question generation.  The sources hold three revisions of               *)
(* QuestionGenerator.generateQuestions:                                    *)
(*   1. src/app/api/questions/route.ts, lines 63-135: a list of questions; *)
(*   2. src/app/api/questions/route.ts, lines 250-298: categories;         *)
(*   3. src/unnamed/part_001, lines 20-83: groups.                         *)
(* The reply of the LLM is a list of categories (one category in the       *)
(* revision 1), each a list of questions; a question of the reply has a    *)
(* text and may have an id.                                                *)

\* most categories in a reply, and most questions in a category
MaxCategories == 2

\* the questions of a reply
LLMQuestions == [question : {"q1", "q2"}, id : {Undefined, Some("x")}]

\* the replies that can be parsed
LLMReplies ==
  UNION {[1..n -> UNION {[1..m -> LLMQuestions] : m \in 1..MaxCategories}]
           : n \in 1..MaxCategories}

\* the number of questions in the first n categories
RECURSIVE QuestionsBefore(_, _)
QuestionsBefore(reply, n) ==
  IF n = 0 THEN 0 ELSE QuestionsBefore(reply, n - 1) + Len(reply[n])

\* revision 1: { id: `q_${documentId}_${Date.now()}_${index}`, ...q }; the
\* fields of q come last, so that an id of q replaces the generated one
QuestionsWithIndexIds(questions) ==
  [i \in 1..Len(questions) |->
     [question |-> questions[i].question,
      id |-> IF IsDefined(questions[i].id)
               THEN [kind |-> "reply", value |-> questions[i].id[1], n |-> 0]
               ELSE [kind |-> "index", value |-> "", n |-> i - 1]]]

\* revisions 2 and 3: { type: q.type, ..., id: randomUUID() }; the n-th
\* call of randomUUID returns the n-th fresh identifier
QuestionsWithUUIDs(reply) ==
  [c \in 1..Len(reply) |->
     [i \in 1..Len(reply[c]) |->
        [question |-> reply[c][i].question,
         id |-> [kind |-> "uuid", value |-> "",
                 n |-> QuestionsBefore(reply, c - 1) + i]]]]

\* what generateQuestions returns, as a list of categories; a reply that
\* cannot be parsed makes the revision 1 throw and the others return no
\* category
generateQuestions(rev, reply) ==
  IF ~IsDefined(reply)
    THEN [thrown |-> rev = 1, categories |-> <<>>]
    ELSE [thrown |-> FALSE,
          categories |-> IF rev = 1
                           THEN <<QuestionsWithIndexIds(reply[1][1])>>
                           ELSE QuestionsWithUUIDs(reply[1])]

InitGeneration ==
  /\ generation \in
       {[pc |-> "request", rev |-> rev, reply |-> reply, status |-> 0,
         categories |-> <<>>] :
          rev \in 1..3, reply \in {Undefined} \cup {Some(r) : r \in LLMReplies}}
  /\ IsDefined(generation.reply) /\ generation.rev = 1
       => Len(generation.reply[1]) = 1
  /\ NoStore
  /\ NoRequests
  /\ upload = NoUpload
  /\ uploadsDir = {}
  /\ pc = "none"
  /\ question = NullQuestion
  /\ userAnswer = Undefined
  /\ llm = NoLLM
  /\ result = NoResult
  /\ NoCall
  /\ NoPost

\* POST /api/questions for a document that is stored: the response with
\* the questions, 500 when generateQuestions throws
GenerateQuestions ==
  /\ generation.pc = "request"
  /\ LET g == generateQuestions(generation.rev, generation.reply)
     IN  generation' =
           [generation EXCEPT !.pc = "responded",
                              !.status = IF g.thrown THEN 500 ELSE 200,
                              !.categories = g.categories]
  /\ UNCHANGED <<gradeVars, requests, storeVars, uploadVars>>

SpecGeneration == InitGeneration /\ [][GenerateQuestions]_vars

-----------------------------------------------------------------------------
(* Properties *)

Graded == pc = "done"

\* the result was built by one of the two scorers
Scored == Graded /\ result.by \in {"calculateScore", "gradeAnswer"}

\* the submitted answer string is present and not empty
Answered == IsDefined(userAnswer) /\ userAnswer[1] # <<>>

IsSingleChoice == question.type \in {"yes-no", "multiple-choice-single"}

IsMultiChoice == question.type = "multiple-choice-multi"

\* C1: every GradingResult has 0 <= score <= maxScore, whether it comes from
\* calculateScore, from the LLM-graded path or from the no-answer branch of
\* POST.
C1_ScoreWithinMaxScore ==
  Graded =>
    /\ ~result.nan
    /\ 0 <= result.score
    /\ result.score <= result.maxScore

\* the strings are equal up to letter case
EqualUpToCase(a, b) == ToLowerCase(a) = ToLowerCase(b)

\* the strings are equal up to letter case and surrounding whitespace
EqualUpToCaseAndTrim(a, b) == ToLowerCase(Trim(a)) = ToLowerCase(Trim(b))

\* C2 as stated: for a binary or single-choice question with a defined
\* correct answer, an answer equal to it up to letter case scores maxScore
\* and is correct, and every other non-empty answer scores 0.
C2_ExactMatchOrZero ==
  (Scored /\ IsSingleChoice /\ TruthyStr(question.correctAnswer) /\ Answered) =>
    IF EqualUpToCase(userAnswer[1], question.correctAnswer[1])
      THEN result.score = result.maxScore /\ result.isCorrect
      ELSE result.score = 0

\* C2 as amended: an answer equal to the correct answer up to letter case
\* scores maxScore and is correct; a non-empty answer that differs from it
\* even after trimming scores 0; an answer that differs only in surrounding
\* whitespace scores 0 in calculateScore and maxScore in gradeSingleChoice.
C2_MatchUpToCase ==
  (Scored /\ IsSingleChoice /\ TruthyStr(question.correctAnswer) /\ Answered) =>
    LET a == userAnswer[1]
        c == question.correctAnswer[1]
    IN  /\ EqualUpToCase(a, c) =>
             result.score = result.maxScore /\ result.isCorrect
        /\ ~EqualUpToCaseAndTrim(a, c) =>
             result.score = 0 /\ ~result.isCorrect
        /\ (~EqualUpToCase(a, c) /\ EqualUpToCaseAndTrim(a, c)) =>
             IF result.by = "calculateScore"
               THEN result.score = 0 /\ ~result.isCorrect
               ELSE result.score = result.maxScore /\ result.isCorrect

\* a yes-no question answered "a" where "A" is correct has been scored in
\* full by calculateScore
C2_Witness ==
  /\ Graded
  /\ result.by = "calculateScore"
  /\ question.type = "yes-no"
  /\ question.correctAnswer = Some(<<"A">>)
  /\ userAnswer = Some(<<"a">>)
  /\ result.score = result.maxScore
  /\ result.maxScore = 10 * Unit
  /\ result.isCorrect

\* the correct answers the spec takes a multi-choice question to have: the
\* correctAnswers list, or the single correctAnswer when the list is absent
ConfiguredCorrect(q) ==
  IF IsDefined(q.correctAnswers) THEN q.correctAnswers[1]
  ELSE IF TruthyStr(q.correctAnswer) THEN <<q.correctAnswer[1]>>
  ELSE <<>>

\* the answer is the labels joined by commas in some order, up to letter case
SelectsExactly(answer, labels) ==
  \E p \in Permutations(1..Len(labels)) :
    EqualUpToCase(answer, Join([i \in 1..Len(labels) |-> labels[p[i]]]))

\* C3: for a multi-choice question, the answer that selects exactly the full
\* set of correct answers, in any order and any letter case, scores maxScore
\* and is correct.
C3_FullSetScoresFull ==
  (Scored /\ IsMultiChoice /\ IsDefined(userAnswer)
      /\ ConfiguredCorrect(question) # <<>>
      /\ SelectsExactly(userAnswer[1], ConfiguredCorrect(question))) =>
    result.score = result.maxScore /\ result.isCorrect

\* the selections of an answer: its comma-separated pieces, trimmed and
\* case-folded
Selections(answer) ==
  LET parts == Split(answer)
  IN  [i \in 1..Len(parts) |-> ToLowerCase(Trim(parts[i]))]

\* the case-folded labels
LabelSet(labels) == {ToLowerCase(labels[j]) : j \in 1..Len(labels)}

\* the answer selects every correct answer once and one more option that is
\* not correct
SelectsAllPlusOne(answer, labels) ==
  LET sel == Selections(answer)
      cs  == LabelSet(labels)
  IN  /\ Len(sel) = Cardinality(cs) + 1
      /\ \A c \in cs : Cardinality({i \in 1..Len(sel) : sel[i] = c}) = 1
      /\ Cardinality({i \in 1..Len(sel) : sel[i] \notin cs}) = 1

\* C4: for a multi-choice question, an answer that selects all correct
\* answers plus one incorrect option scores strictly less than maxScore and
\* is not correct.
C4_SupersetScoresLess ==
  (Scored /\ IsMultiChoice /\ IsDefined(userAnswer)
      /\ ConfiguredCorrect(question) # <<>>
      /\ SelectsAllPlusOne(userAnswer[1], ConfiguredCorrect(question))) =>
    result.score < result.maxScore /\ ~result.isCorrect

\* the weight in effect: 1 when absent, and never below 1
EffectiveWeight(q) ==
  IF IsDefined(q.weight) /\ q.weight[1] >= Unit THEN q.weight[1] ELSE Unit

\* weight * max(0, (correctSelected - incorrectSelected) / totalCorrect),
\* rounded to 2 decimal places
NetCredit(q, answer) ==
  LET labels  == ConfiguredCorrect(q)
      sel     == Selections(answer)
      matches == {i \in 1..Len(sel) : sel[i] \in LabelSet(labels)}
      others  == (1..Len(sel)) \ matches
      net     == Cardinality(matches) - Cardinality(others)
  IN  RoundDiv(EffectiveWeight(q) * Max(0, net), Len(labels))

\* C5: calculateScore gives a multi-choice question with totalCorrect > 0
\* the net credit weight * max(0, (correctSelected - incorrectSelected) /
\* totalCorrect), rounded to 2 decimal places.
C5_NetCreditRule ==
  (Graded /\ result.by = "calculateScore" /\ IsMultiChoice
      /\ IsDefined(userAnswer) /\ ConfiguredCorrect(question) # <<>>) =>
    /\ ~result.nan
    /\ result.score = NetCredit(question, userAnswer[1])

\* correct {A, b}, weight 10: calculateScore has scored the answer "a" 5
C5_Witness ==
  /\ Graded
  /\ result.by = "calculateScore"
  /\ result.path = "multi"
  /\ IsMultiChoice
  /\ question.correctAnswers = Some(<< <<"A">>, <<"b">> >>)
  /\ question.weight = Some(10 * Unit)
  /\ userAnswer = Some(<<"a">>)
  /\ result.score = 5 * Unit

\* C6: a multi-choice result is correct only when its score equals maxScore;
\* a partially credited answer is never marked correct.
C6_CorrectOnlyAtFullScore ==
  (Graded /\ IsMultiChoice /\ result.isCorrect) =>
    ~result.nan /\ result.score = result.maxScore

\* C7: a binary or single-choice question whose correct answer is undefined,
\* or which the user did not answer, scores 0, is not correct, and is not
\* graded by the LLM or its fallback.
C7_SingleFailsClosed ==
  (Graded /\ IsSingleChoice
      /\ (~IsDefined(question.correctAnswer) \/ ~Answered)) =>
    /\ result.score = 0
    /\ ~result.isCorrect
    /\ ~UsesLLM(result)

\* C8: a multi-choice question with no correct answers configured, or
\* answered with the empty string, scores 0 and is not correct.
C8_MultiFailsClosed ==
  (Graded /\ IsMultiChoice
      /\ \/ ( /\ (~IsDefined(question.correctAnswers)
                    \/ question.correctAnswers[1] = <<>>)
              /\ ~TruthyStr(question.correctAnswer) )
         \/ userAnswer = Some(<<>>)) =>
    result.score = 0 /\ ~result.isCorrect

IsSubjective == question.type \in {"scale", "rating"}

\* neither correctAnswer nor correctAnswers is defined
LacksCorrect ==
  ~IsDefined(question.correctAnswer) /\ ~IsDefined(question.correctAnswers)

\* C9 as stated: a scale or rating question, and any question lacking a
\* defined correct answer, scores maxScore and is correct whenever an answer
\* is present, and scores 0 when no answer is present.
C9_FullScoreWhenAnswered ==
  (Scored /\ (IsSubjective \/ LacksCorrect)) =>
    IF Answered
      THEN ~result.nan /\ result.score = result.maxScore /\ result.isCorrect
      ELSE result.score = 0

\* C9 as amended: such a question scores 0 when no answer is present; when
\* an answer is present it is graded by the LLM.  calculateScore (scale,
\* rating, and any type with neither correctAnswer nor correctAnswers)
\* returns the LLM's score clamped into [0, maxScore], and maxScore with
\* isCorrect only when the call fails or its reply does not parse.
\* gradeOpenEnded (scale, rating) returns min(LLM score, 5) of maxScore 5, and
\* 0 with isCorrect false when the call fails or its reply does not parse.
C9_GradedByLLM ==
  /\ (Graded /\ result.by = "calculateScore" /\ IsDefined(userAnswer)
        /\ (IsSubjective \/ ~HasCorrect(question))) =>
       /\ ~Answered => result.score = 0 /\ ~result.isCorrect /\ llm = NoLLM
       /\ (Answered /\ llm.kind # "ok") =>
            result.score = result.maxScore /\ result.isCorrect
       /\ (Answered /\ llm.kind = "ok") =>
            /\ 0 <= result.score /\ result.score <= result.maxScore
            /\ IsDefined(llm.score) =>
                 \/ result.score = llm.score[1]
                 \/ llm.score[1] < 0 /\ result.score = 0
                 \/ llm.score[1] > result.maxScore
                      /\ result.score = result.maxScore
            /\ ~IsDefined(llm.score) => result.score = 0
  /\ (Graded /\ result.by = "gradeAnswer" /\ IsDefined(userAnswer)
        /\ IsSubjective) =>
       /\ result.maxScore = 5 * Unit
       /\ Trim(userAnswer[1]) = <<>> =>
            result.score = 0 /\ ~result.isCorrect /\ llm = NoLLM
       /\ (Trim(userAnswer[1]) # <<>> /\ llm.kind # "ok") =>
            result.score = 0 /\ ~result.isCorrect
       /\ (Trim(userAnswer[1]) # <<>> /\ llm.kind = "ok"
             /\ IsDefined(llm.score)) =>
            result.score = Min(llm.score[1], 5 * Unit)

\* calculateScore has given an answered rating question the full weight 10
\* after the LLM call failed
C9_Witness ==
  /\ Graded
  /\ result.by = "calculateScore"
  /\ question.type = "rating"
  /\ Answered
  /\ llm = LLMThrows
  /\ result.path = "fallback"
  /\ result.score = 10 * Unit
  /\ result.isCorrect

\* C10: a question of an unsupported type is graded score 0, maxScore 1,
\* isCorrect false, for every answer and every weight.
C10_UnsupportedTypeZero ==
  (Graded /\ question.type \notin
      {"yes-no", "multiple-choice-single", "multiple-choice-multi",
       "scale", "rating"}) =>
    /\ result.score = 0
    /\ result.maxScore = Unit
    /\ ~result.isCorrect

-----------------------------------------------------------------------------
(* C11: a missing argument *)

MissingArgument == question = NullQuestion \/ ~IsDefined(userAnswer)

ZeroAndIncorrect == result.score = 0 /\ ~result.nan /\ ~result.isCorrect

-----------------------------------------------------------------------------
(* C12: malformed arguments *)

\* C12: the scorer never throws: for every input, a truthy answer that is
\* not a string, a correctAnswer that is not a string and a correctAnswers
\* list with an entry that is not a string included, it returns a result.
C12_ScorerNeverThrows ==
  (Graded /\ result.by \in {"calculateScore", "gradeAnswer"}) =>
    result.path # "throws"

-----------------------------------------------------------------------------
(* C13: maxScore and weight *)

\* the weight with 1 used when it is absent and a minimum of 1 enforced
WeightAtLeastOne(q) ==
  IF IsDefined(q.weight) THEN Max(Unit, q.weight[1]) ELSE Unit

\* C13: for every question of a grade request, answered (calculateScore) or
\* without a submitted answer (the branch of the handler), the maxScore of
\* its GradingResult is the question's weight, 1 when the weight is absent,
\* and never less than 1.
C13_MaxScoreIsWeight ==
  (/\ Graded
   /\ \/ result.by = "calculateScore" /\ IsDefined(userAnswer)
      \/ result.by = "POST") =>
    /\ result.maxScore = WeightAtLeastOne(question)
    /\ result.maxScore >= Unit

-----------------------------------------------------------------------------
(* C14: the aggregate *)

Aggregated == pc \in {"totals", "overall"}

\* the sum of f over the entries of gradingResults
RECURSIVE SumOver(_, _)
SumOver(f, n) ==
  IF n = 0 THEN 0 ELSE gradingResults[n][f] + SumOver(f, n - 1)

\* the nearest integer to p / q, for q # 0
RoundRatio(p, q) == IF q > 0 THEN RoundDiv(p, q) ELSE RoundDiv(-p, -q)

\* the greatest common divisor of a >= 0 and b >= 0
RECURSIVE GCD(_, _)
GCD(a, b) == IF b = 0 THEN a ELSE GCD(b, a % b)

\* the fraction num / den in lowest terms, for den > 0
Reduced(p) ==
  LET g == GCD(Abs(p.num), p.den)
  IN  <<p.num \div g, p.den \div g>>

\* two percentages are the same number
SamePercent(a, b) ==
  /\ a.nan = b.nan
  /\ ~a.nan => Reduced(a) = Reduced(b)

TotalsAreSums ==
  LET t == response.testResult IN
  /\ t.totalScore = SumOver("score", Len(gradingResults))
  /\ t.maxPossibleScore = SumOver("maxScore", Len(gradingResults))
  /\ t.nan = (\E i \in 1..Len(gradingResults) : gradingResults[i].nan)

\* C14, as stated: for every non-empty list of GradingResults, totalScore
\* is the sum of the scores, maxPossibleScore the sum of the maxScores, and
\* percentage is round(1000 * totalScore / maxPossibleScore) / 10, with 0
\* when maxPossibleScore is 0.
C14_RoundedPercentage ==
  (Aggregated /\ gradingResults # <<>>) =>
    LET t == response.testResult IN
    /\ TotalsAreSums
    /\ SamePercent(t.percentage,
         IF t.maxPossibleScore = 0 THEN ZeroPercent
         ELSE [num |-> RoundRatio(1000 * t.totalScore, t.maxPossibleScore),
               den |-> 10, nan |-> t.nan])

\* C14, amended: the totals are the sums; percentage is 0 when
\* maxPossibleScore is not positive, and otherwise it is
\* round(1000 * totalScore / maxPossibleScore) / 10 in the handler of
\* revision 1 and the unrounded 100 * totalScore / maxPossibleScore in
\* calculateOverallScore.
C14_PercentageOfTotals ==
  (Aggregated /\ gradingResults # <<>>) =>
    LET t == response.testResult IN
    /\ TotalsAreSums
    /\ t.maxPossibleScore <= 0 => SamePercent(t.percentage, ZeroPercent)
    /\ (t.maxPossibleScore > 0 /\ pc = "totals") =>
         SamePercent(t.percentage,
           [num |-> RoundRatio(1000 * t.totalScore, t.maxPossibleScore),
            den |-> 10, nan |-> t.nan])
    /\ (t.maxPossibleScore > 0 /\ pc = "overall") =>
         SamePercent(t.percentage,
           [num |-> 100 * t.totalScore, den |-> t.maxPossibleScore,
            nan |-> t.nan])

\* calculateOverallScore has returned a percentage with more than one
\* decimal place, such as 1 of 3
C14_Witness ==
  /\ pc = "overall"
  /\ gradingResults # <<>>
  /\ ~response.testResult.nan
  /\ response.testResult.maxPossibleScore > 0
  /\ (1000 * response.testResult.totalScore)
       % response.testResult.maxPossibleScore # 0

-----------------------------------------------------------------------------
(* C15: the percentage of a graded test *)

\* a handler has returned a testResult
Responded == pc \in {"responded1", "responded2"} /\ response.status = 200

\* C15: the percentage reported for a graded test is within [0, 100],
\* whatever the weights of the questions and the answers of the request.
C15_PercentageWithinRange ==
  Responded =>
    LET p == response.testResult.percentage IN
    /\ ~p.nan
    /\ 0 <= p.num
    /\ p.num <= 100 * p.den

-----------------------------------------------------------------------------
(* C16: the empty list *)

-----------------------------------------------------------------------------
(* C17: grading twice *)

Regraded == pc = "regraded"

\* the score, maxScore and isCorrect of a result
Core(g) == <<g.score, g.nan, g.maxScore, g.isCorrect>>

\* the pair is graded without an LLM call: an argument is missing, the
\* answer is empty, or the question is objective and has a correct answer
\* (calculateScore); an argument is missing, the question is not a scale or
\* rating question, or the answer is blank or not a string (gradeAnswer)
GradedLocally ==
  \/ MissingArgument
  \/ /\ result.by = "calculateScore"
     /\ \/ userAnswer[1] = <<>>
        \/ /\ question.type \in {"yes-no", "multiple-choice-single",
                                  "multiple-choice-multi"}
           /\ \/ question.correctAnswer \notin {Undefined, Some(<<>>)}
              \/ question.correctAnswers # Undefined
  \/ /\ result.by = "gradeAnswer"
     /\ \/ question.type \notin {"scale", "rating"}
        \/ userAnswer[1] = NotAString
        \/ \A i \in 1..Len(userAnswer[1]) : userAnswer[1][i] = " "

\* C17, as stated: grading the same (question, answer) pair twice yields
\* the same score, maxScore and isCorrect for every question type, whatever
\* the outcomes of the LLM calls.
C17_SameResultTwice ==
  Regraded => Core(result2) = Core(result)

\* C17, amended: grading the same pair twice yields the same maxScore, and
\* the same score and isCorrect without any LLM call when the pair is
\* graded locally; the score and isCorrect of every other pair are set by
\* the reply of the LLM.
C17_SameResultWithoutLLM ==
  Regraded =>
    /\ result2.maxScore = result.maxScore
    /\ GradedLocally =>
         /\ Core(result2) = Core(result)
         /\ llm = NoLLM

\* a multi-choice question with a correct answer has been graded twice
\* with the full score
C17_Witness ==
  /\ Regraded
  /\ question.type = "multiple-choice-multi"
  /\ question.correctAnswers = Some(<< <<"A">> >>)
  /\ userAnswer = Some(<<"a">>)
  /\ result2.score = result2.maxScore

-----------------------------------------------------------------------------
(* C18: the collaborators *)

\* the feedback call of some question or the comparison call was not
\* available (no API key) or failed
CollaboratorFailed ==
  \/ ~apiKey
  \/ \E i \in 1..Len(gradingResults) :
       gradingResults[i].feedback \in {GreatJob, GoodEffort}
  \/ response.comparison.analysis
       \in {Str("Performance analysis could not be generated due to an error."),
            Str("Performance analysis could not be generated.")}

\* what the grading of the i-th question yields, whatever the collaborators
\* do
ExpectedCores(i) ==
  LET q  == body.questions[i]
      ua == FindAnswer(body.answers, q.id)
  IN  IF IsDefined(ua)
        THEN {Core(calculateScore(q, ua, o)) : o \in PostLLMOutcomes}
        ELSE {Core(NoAnswerResult(q))}

\* C18: if the feedback call or the comparison call is unavailable or
\* fails, POST /api/grade still returns a testResult, and the score,
\* maxScore and isCorrect of every question and the totals are those of
\* the grading alone.
C18_CoreIndependentOfCollaborators ==
  (pc = "responded1" /\ CollaboratorFailed) =>
    /\ response.status = 200
    /\ Len(gradingResults) = Len(body.questions)
    /\ \A i \in 1..Len(gradingResults) :
         Core(gradingResults[i]) \in ExpectedCores(i)
    /\ response.testResult = Totals(gradingResults)

-----------------------------------------------------------------------------
(* C19: the fallback feedback *)

\* C19: when generateFeedback is called for a question and an answer and
\* its LLM call is unavailable (no API key) or fails, it returns "Great
\* job! Your answer is correct." exactly when score equals maxScore and
\* "Good effort. Review the material to improve your understanding."
\* otherwise.
C19_FallbackFeedback ==
  (/\ pc = "fed"
   /\ ~MissingArgument
   /\ ~apiKey \/ feedback.call = "throw") =>
    feedback.text =
      (IF result.score = result.maxScore
         THEN "Great job! Your answer is correct."
         ELSE "Good effort. Review the material to improve your understanding.")

\* the LLM call has failed for an answer with the full score
C19_Witness ==
  /\ pc = "fed"
  /\ apiKey
  /\ feedback.call = "throw"
  /\ result.score = result.maxScore
  /\ feedback.text = "Great job! Your answer is correct."

-----------------------------------------------------------------------------
(* C20: the comparison *)

\* C20: generateComparison always returns a correlation string, an analysis
\* string and a list of three recommendation strings, whether the LLM call
\* succeeds with any JSON content, returns text that cannot be parsed, or
\* fails.
C20_ComparisonShape ==
  (pc = "responded1" /\ response.status = 200) =>
    LET c == response.comparison IN
    /\ c.correlation.typeof = "string"
    /\ c.analysis.typeof = "string"
    /\ Len(c.recommendations) = 3
    /\ \A i \in 1..Len(c.recommendations) :
         c.recommendations[i].typeof = "string"

-----------------------------------------------------------------------------
(* C23: surrounding whitespace in a single-choice answer *)

\* the answer differs from the correct answer only by leading or trailing
\* whitespace
DiffersOnlyByWhitespace ==
  /\ IsSingleChoice
  /\ TruthyStr(question.correctAnswer)
  /\ Answered
  /\ userAnswer[1] # question.correctAnswer[1]
  /\ Trim(userAnswer[1]) = Trim(question.correctAnswer[1])

\* C23, as stated: for single-choice and binary questions the comparison
\* does not trim: an answer that differs from the correct answer only by
\* leading or trailing whitespace scores 0 and is not correct.
C23_WhitespaceScoresZero ==
  (Scored /\ DiffersOnlyByWhitespace) =>
    result.score = 0 /\ ~result.isCorrect

\* C23, amended: such an answer scores 0 and is not correct in
\* calculateScore, which only case-folds; GradingService.gradeSingleChoice
\* trims both strings, scores it 1 and marks it correct.
C23_WhitespaceByRevision ==
  (Scored /\ DiffersOnlyByWhitespace) =>
    /\ result.by = "calculateScore" => result.score = 0 /\ ~result.isCorrect
    /\ result.by = "gradeAnswer" => result.score = Unit /\ result.isCorrect

\* calculateScore has scored the answer "A " to a question whose correct
\* answer is "A"
C23_Witness ==
  /\ Graded
  /\ result.by = "calculateScore"
  /\ question.type = "multiple-choice-single"
  /\ question.correctAnswer = Some(<<"A">>)
  /\ userAnswer = Some(<<"A", " ">>)
  /\ result.score = 0

-----------------------------------------------------------------------------
(* C26: repeated selections in a multi-choice answer *)

\* the set of distinct selections of the answer is the set of correct
\* answers, up to letter case
SelectsTheCorrectSet ==
  LET sel == Selections(userAnswer[1])
  IN  {sel[i] : i \in 1..Len(sel)} = LabelSet(ConfiguredCorrect(question))

\* C26: for a multi-choice question, isCorrect is true (and the full score
\* is awarded) only if the set of distinct selections in the answer equals
\* the set of correct answers case-insensitively; an answer that repeats
\* one correct selection and omits another is not marked correct.
C26_CorrectOnlyForCorrectSet ==
  (Scored /\ IsMultiChoice /\ Answered
      /\ IsDefined(question.correctAnswers)
      /\ question.correctAnswers[1] # <<>>
      /\ (result.isCorrect \/ result.score >= result.maxScore)) =>
    SelectsTheCorrectSet

-----------------------------------------------------------------------------
(* C27: one grading result per question *)

\* C27: the gradingResults of a successful grade response hold exactly one
\* entry per question of the request, in request order and with that
\* question's id, also for questions without an answer and for requests
\* with several answers to one question.
C27_OneResultPerQuestion ==
  Responded =>
    /\ Len(gradingResults) = Len(body.questions)
    /\ \A i \in 1..Len(gradingResults) :
         gradingResults[i].questionId = body.questions[i].id

-----------------------------------------------------------------------------
(* C21: concurrent grading *)

\* the gradingResults of the request r when it runs alone: the loop of the
\* handler, run from its first question to its last without interruption
AloneResults(r) ==
  [i \in 1..Len(r.body.questions) |->
     LET q  == r.body.questions[i]
         ua == FindAnswer(r.body.answers, q.id)
     IN  IF ~IsDefined(ua)
           THEN GradingResultOf(q.id, NoAnswerResult(q), "No answer provided")
           ELSE LET res == calculateScore(q, ua, r.llmOutcome)
                IN  GradingResultOf(q.id, res,
                      generateFeedback(q, ua, res, TRUE,
                                       r.feedbackOutcome).text)]

\* C21: when two POST /api/grade requests run concurrently and interleave
\* at their awaits, each returns the gradingResults, totalScore,
\* maxPossibleScore and percentage that it returns when run alone.
C21_SameAsAlone ==
  \A k \in DOMAIN requests :
    requests[k].pc = "responded" =>
      /\ requests[k].gradingResults = AloneResults(requests[k])
      /\ requests[k].testResult = Totals(AloneResults(requests[k]))

\* request 1 has responded with two results while request 2, which is not
\* the same request, waits for the feedback of its second question
C21_Witness ==
  /\ requests # <<>>
  /\ requests[1].pc = "responded"
  /\ Len(requests[1].gradingResults) = 2
  /\ requests[2].pc = "scored"
  /\ Len(requests[2].gradingResults) = 1
  /\ requests[1].body # requests[2].body

-----------------------------------------------------------------------------
(* C29: the document store after a sequence of calls *)

\* one of the first n calls failed
SomeCallFailed(n) == \E i \in 1..n : calls[i].failed

\* the store of the most recent set of id among the first n calls when no
\* delete of id followed it
LastSet(n, id) ==
  LET w == {i \in 1..n : calls[i].id = id /\ calls[i].op \in {"set", "delete"}}
  IN  IF w = {} THEN Undefined
      ELSE LET last == CHOOSE i \in w : \A j \in w : j <= i
           IN  IF calls[last].op = "set" THEN Some(calls[last].store)
               ELSE Undefined

\* the chunks of a store, none when it has no list of chunks
ChunkList(store) == IF IsDefined(store.chunks) THEN store.chunks[1] ELSE <<>>

\* what getDocumentStore returned is the store expected, undefined when
\* none is expected
ReturnsStore(returned, expected) ==
  IF ~IsDefined(expected) THEN returned = Undefined
  ELSE /\ IsDefined(returned)
       /\ returned[1].kind = "object"
       /\ returned[1].originalContent = expected[1].originalContent
       /\ ChunkList(returned[1]) = ChunkList(expected[1])

\* what getDocumentStore(id) of the revision returns in this state
StoredAt(rev, t, f, id) ==
  IF rev = "sqlite" THEN getDocumentStoreDb(t, id)
  ELSE getDocumentStoreFile(f, id)

\* C29: after any sequence of setDocumentStore and deleteDocumentStore
\* calls, getDocumentStore(id) returns the originalContent and the chunks,
\* in the order of their index, of the most recent set of id when no delete
\* of id followed it, and undefined otherwise; deleteDocumentStore(id)
\* returns true exactly when the document existed.
C29_LastSetWins ==
  ~SomeCallFailed(Len(calls)) =>
    /\ \A rev \in Revisions, id \in RequestIds :
         (calls # <<>> /\ calls[1].rev = rev) =>
           ReturnsStore(StoredAt(rev, tables, storeFile, id),
                        LastSet(Len(calls), id))
    /\ \A i \in 1..Len(calls) :
         /\ calls[i].op = "get" =>
              ReturnsStore(calls[i].returned, LastSet(i - 1, calls[i].id))
         /\ calls[i].op = "delete" =>
              calls[i].returned = Some(IsDefined(LastSet(i - 1, calls[i].id)))

-----------------------------------------------------------------------------
(* C30: a setDocumentStore that fails *)

\* this step is a call of setDocumentStore that failed part-way
FailedSetStep ==
  /\ Len(calls') = Len(calls) + 1
  /\ calls'[Len(calls')].op = "set"
  /\ calls'[Len(calls')].failed

\* C30: a setDocumentStore that fails part-way leaves the store as it was:
\* getDocumentStore returns for every document what it returned before the
\* call, and the call returns without an error.
C30_FailedSetChangesNothing ==
  [][FailedSetStep =>
       /\ \A rev \in Revisions, id \in RequestIds :
            calls'[1].rev = rev =>
              StoredAt(rev, tables', storeFile', id)
                = StoredAt(rev, tables, storeFile, id)
       /\ calls'[Len(calls')].returned = Undefined]_vars

-----------------------------------------------------------------------------
(* C22: the validation of an upload *)

\* the request came with the API key configured and with a file, and the
\* handler is past its validation
UploadValidated ==
  upload.pc \in {"written", "processed", "responded"} /\ apiKey
    /\ IsDefined(upload.file)

\* C22: POST /api/upload accepts files of type PDF, DOCX, DOC and TXT of at
\* most 10MB; a file of any other type, or a larger one, is rejected with
\* status 400 before anything is written to the uploads directory or to
\* the document store.
C22_ValidatesTypeAndSize ==
  UploadValidated =>
    IF /\ upload.file[1].type \in DocumentTypes
       /\ upload.file[1].size <= MaxFileSize
      THEN upload.wrote
      ELSE /\ upload.pc = "responded"
           /\ upload.status = 400
           /\ ~upload.wrote
           /\ uploadsDir = {}
           /\ tables = EmptyTables
           /\ storeFile = NoStoreFile

-----------------------------------------------------------------------------
(* C25: the temporary file of an upload *)

\* C25: once POST /api/upload has written the temporary file to the uploads
\* directory, that file no longer exists when the handler returns, whether
\* text extraction and storing succeeded or failed.
C25_TemporaryFileRemoved ==
  (upload.pc = "responded" /\ upload.wrote) =>
    upload.filePath \notin uploadsDir

-----------------------------------------------------------------------------
(* C28: the document of a successful upload *)

\* C28: if POST /api/upload responds with success and a documentId, then
\* getDocumentStore(documentId) returns a store with the non-empty
\* originalContent of the document, so that question generation and
\* grading do not answer 404 "Document not found".
C28_UploadedDocumentIsStored ==
  (upload.pc = "responded" /\ upload.status = 200) =>
    LET store == StoredAt(upload.store, tables, storeFile, upload.documentId)
    IN  /\ IsDefined(store)
        /\ IsDefined(store[1].originalContent)
        /\ store[1].originalContent[1] # ""
        /\ store[1].originalContent[1] = upload.file[1].text

-----------------------------------------------------------------------------
(* C24: the ids of the generated questions *)

\* C24: within one question-generation response all question ids are
\* pairwise distinct, whatever the reply of the LLM holds: questions with
\* an id field of their own, questions repeated across categories.
C24_DistinctQuestionIds ==
  (generation.pc = "responded" /\ generation.status = 200) =>
    LET cs == generation.categories IN
    \A c, d \in 1..Len(cs) :
      \A i \in 1..Len(cs[c]), j \in 1..Len(cs[d]) :
        (c # d \/ i # j) => cs[c][i].id # cs[d][j].id

====
